---- MODULE Spec2Model ----
(***************************************************************************)
(* A model of the sSWBAM alignment-record tools:                           *)
(*   - src/slave/slave.c       the worker job (sort, duplicate marking)    *)
(*   - src/pre-tools/*.cpp     the region partitioner and region locator   *)
(* Buffers are sequences of byte values; records are the C structs.        *)
(***************************************************************************)
EXTENDS Integers, Sequences, FiniteSets, TLC

VARIABLES
    list,         \* record_list_t.records of mark_duplicates_sorted
    md_pc,        \* "off" | "parsed" | "marked"
    chrs,         \* auto_region: std::vector<ChrInfo> chrs
    target_bytes, \* auto_region: target_bytes of build_regions_for_chr
    ar_pc,        \* auto_region: position in main
    sam_buf,      \* auto_region: the bytes of the input SAM file
    header_lines, \* auto_region: std::vector<std::string> header_lines
    records,      \* auto_region: std::vector<SamRecord> records
    files,        \* auto_region: the region files, path -> the fwrite calls on it
    region_txt,   \* split_from_region: the lines of region.txt still unread
    sf_regions,   \* split_from_region: std::vector<Region> regions
    chr2regs,     \* split_from_region: chr -> region indices, by start
    sf_query,     \* split_from_region: the (chr, pos) last looked up
    sf_found,     \* split_from_region: what find_region_for_pos returned
    sf_pc,        \* split_from_region: position in main
    file_bytes,   \* the input file the host read into para.in_buf
    in_buf,       \* SamProcessPara.in_buf (the first size bytes, or scratch)
    out_buf,      \* SamProcessPara.out_buf: the bytes written so far
    size,         \* SamProcessPara.size
    out_buf_capacity, \* SamProcessPara.out_buf_capacity
    out_size,     \* *(SamProcessPara.out_size)
    mode,         \* SamProcessPara.mode
    job_pc,       \* "off" | "spawned" | "joined" | "resorted"
    job_ret,      \* sam_process_cpe: ret of the call of markdup_core
    markdup_size, \* sam_process_cpe: markdup_size (MODE_ALL)
    pb_pc,        \* main/process_batch: position of the host
    pb_mode,      \* main: mode
    pb_dir,       \* main: the entries of the input directory, in readdir order
    pb_next,      \* main: the next entry readdir returns
    pb_caller,    \* main: which call of process_batch is running ("loop" | "final")
    pb_batch,     \* main: batch_inpaths[]/batch_outpaths[], as indices into pb_dir
    pb_batches,   \* history: the batches handed to process_batch so far
    pb_written,   \* history: the entries whose output file was written, in order
    pb_unwritable,\* the entries whose output path fopen cannot open
    pb_in_bufs,   \* process_batch: in_bufs[], pointers (0 is NULL)
    pb_out_bufs,  \* process_batch: out_bufs[], pointers (0 is NULL)
    pb_sizes,     \* process_batch: sizes[]
    pb_paras,     \* process_batch: SamProcessPara paras[64]
    pb_out_sizes, \* process_batch: unsigned long out_sizes[64]
    pb_mem,       \* the heap: pointer -> bytes of the block
    pb_alloc,     \* the heap: the pointers of the blocks not yet freed
    pb_cpe,       \* per CPE: "idle" | "done"
    pb_acc,       \* per CPE: the buffers and out_sizes slots it accessed
    pb_i,         \* process_batch: i of the write loop (1-based)
    pb_outfiles,  \* the output files: entry -> [opened, bytes]
    pb_failed,    \* process_batch: write_failed
    pb_success,   \* process_batch: write_success
    sc_qual,      \* calc_score: the quality string, as runs [ch, n] of equal characters
    sc_i,         \* calc_score: i
    sc_score,     \* calc_score: score (int64_t)
    sc_rec_score, \* parse_sam_line_markdup: rec->score
    sc_pc,        \* "off" | "loop" | "stored"
    ps_line,      \* the parsers: the bytes of the line parsed
    ps_sort,      \* the result of parse_rname_pos (slave.c)
    ps_region,    \* the result of parse_sam_rname_pos (auto_region.cpp)
    ps_markdup,   \* the result of parse_sam_line_markdup (slave.c)
    ps_static,    \* the result of the field scan of static_region.cpp
    ps_pc,        \* "off" | "read" | "parsed"
    st_chroms,    \* static_region: chroms, name -> [length, offset]
    st_region_size,\* static_region: region_size
    st_sam,       \* static_region: the lines of the SAM file
    st_next,      \* static_region: the next line getline returns
    st_buffers,   \* static_region: buffers[], region -> lines buffered
    st_files,     \* static_region: region_files[], region -> the writes so far
    st_pc,        \* "off" | "reading" | "done"
    nm_tool,      \* file names: the partitioner ("auto_region" | "split_from_region")
    nm_input,     \* file names: the FASTA entry, or the tokens of the region.txt line
    nm_region,    \* file names: the region (chr, start, end) the file is named for
    nm_path,      \* file names: the name of the region file, without the directory
    nm_parsed,    \* file names: what parse_filename_region returned
    nm_pc,        \* "off" | "input" | "named" | "exit1" | "parsed"
    rl_chr,       \* build_regions_for_chr: ChrInfo& c
    rl_target,    \* build_regions_for_chr: target_bytes
    rl_b,         \* build_regions_for_chr: b of the bin loop
    rl_accum,     \* build_regions_for_chr: accum_bytes
    rl_start,     \* build_regions_for_chr: region_start
    rl_in_loop,   \* history: the indices of the regions closed inside the bin loop
    rl_pc,        \* "off" | "loop" | "done"
    wr_line,      \* write_sam_record: the line, as the lengths of its parts
    wr_rec,       \* write_sam_record: sam_record_t *rec
    wr_out_pos,   \* write_sam_record: *out_pos
    wr_cap,       \* write_sam_record: out_capacity
    wr_calls,     \* history: the memcpy calls and stores on out_buf, as [dst, len]
    wr_ret,       \* write_sam_record: the return value
    wr_pc,        \* "off" | "line" | "parsed" | "written"
    rf_map,       \* get_ref_id: ref_map_t *map, the names in the order they were added
    rf_tid,       \* history: rf_tid[k] is the id the latest call returned for the k-th distinct name
    rf_last,      \* history: the name and the id of the latest call
    sw_w,         \* swbam_writer_t *w: recs_buf, ublock, ublock_size and the blocks written to fp
    sw_log,       \* history: the record and the return value of every swbam_write1 call
    sw_r,         \* swbam_reader_t *r: index.blocknum, cur_recs, rec_idx, cur_block
    sw_read,      \* history: the records swbam_read1 returned
    sw_pc         \* "off" | "writing" | "reading" | "eof"

mdVars == <<list, md_pc>>
arVars == <<chrs, target_bytes, ar_pc, sam_buf, header_lines, records, files>>
sfVars == <<region_txt, sf_regions, chr2regs, sf_query, sf_found, sf_pc>>
jobVars == <<file_bytes, in_buf, out_buf, size, out_buf_capacity, out_size,
             mode, job_pc, job_ret, markdup_size>>
pbVars == <<pb_pc, pb_mode, pb_dir, pb_next, pb_caller, pb_batch, pb_batches,
            pb_written, pb_unwritable, pb_in_bufs, pb_out_bufs, pb_sizes, pb_paras,
            pb_out_sizes, pb_mem, pb_alloc, pb_cpe, pb_acc, pb_i, pb_outfiles,
            pb_failed, pb_success>>
scVars == <<sc_qual, sc_i, sc_score, sc_rec_score, sc_pc>>
psVars == <<ps_line, ps_sort, ps_region, ps_markdup, ps_static, ps_pc>>
stVars == <<st_chroms, st_region_size, st_sam, st_next, st_buffers, st_files, st_pc>>
nmVars == <<nm_tool, nm_input, nm_region, nm_path, nm_parsed, nm_pc>>
rlVars == <<rl_chr, rl_target, rl_b, rl_accum, rl_start, rl_in_loop, rl_pc>>
wrVars == <<wr_line, wr_rec, wr_out_pos, wr_cap, wr_calls, wr_ret, wr_pc>>
rfVars == <<rf_map, rf_tid, rf_last>>
swVars == <<sw_w, sw_log, sw_r, sw_read, sw_pc>>
vars == <<mdVars, arVars, sfVars, jobVars, pbVars, scVars, psVars, stVars, nmVars, rlVars, wrVars, rfVars, swVars>>

\* what each program leaves alone: the state of the other programs
notMd == <<arVars, sfVars, jobVars, pbVars, scVars, psVars, stVars, nmVars, rlVars, wrVars, rfVars, swVars>>
notAr == <<mdVars, sfVars, jobVars, pbVars, scVars, psVars, stVars, nmVars, rlVars, wrVars, rfVars, swVars>>
notSf == <<mdVars, arVars, jobVars, pbVars, scVars, psVars, stVars, nmVars, rlVars, wrVars, rfVars, swVars>>
notJob == <<mdVars, arVars, sfVars, pbVars, scVars, psVars, stVars, nmVars, rlVars, wrVars, rfVars, swVars>>
notPb == <<mdVars, arVars, sfVars, jobVars, scVars, psVars, stVars, nmVars, rlVars, wrVars, rfVars, swVars>>
notSc == <<mdVars, arVars, sfVars, jobVars, pbVars, psVars, stVars, nmVars, rlVars, wrVars, rfVars, swVars>>
notPs == <<mdVars, arVars, sfVars, jobVars, pbVars, scVars, stVars, nmVars, rlVars, wrVars, rfVars, swVars>>
notSt == <<mdVars, arVars, sfVars, jobVars, pbVars, scVars, psVars, nmVars, rlVars, wrVars, rfVars, swVars>>
notNm == <<mdVars, arVars, sfVars, jobVars, pbVars, scVars, psVars, stVars, rlVars, wrVars, rfVars, swVars>>
notRl == <<mdVars, arVars, sfVars, jobVars, pbVars, scVars, psVars, stVars, nmVars, wrVars, rfVars, swVars>>
notWr == <<mdVars, arVars, sfVars, jobVars, pbVars, scVars, psVars, stVars, nmVars, rlVars, rfVars, swVars>>
notRf == <<mdVars, arVars, sfVars, jobVars, pbVars, scVars, psVars, stVars, nmVars, rlVars, wrVars, swVars>>
notSw == <<mdVars, arVars, sfVars, jobVars, pbVars, scVars, psVars, stVars, nmVars, rlVars, wrVars, rfVars>>

MdOff == list = <<>> /\ md_pc = "off"
SamOff == sam_buf = <<>> /\ header_lines = <<>> /\ records = <<>> /\ files = <<>>
ArOff == chrs = <<>> /\ target_bytes = 0 /\ ar_pc = "off" /\ SamOff
SfOff ==
    /\ region_txt = <<>> /\ sf_regions = <<>> /\ chr2regs = <<>>
    /\ sf_query = <<>> /\ sf_found = -1 /\ sf_pc = "off"
JobOff ==
    /\ file_bytes = <<>> /\ in_buf = <<>> /\ out_buf = <<>> /\ size = 0
    /\ out_buf_capacity = 0 /\ out_size = 0 /\ mode = 0 /\ job_pc = "off"
    /\ job_ret = 0 /\ markdup_size = 0
PbOff ==
    /\ pb_pc = "off" /\ pb_mode = 0 /\ pb_dir = <<>> /\ pb_next = 0
    /\ pb_caller = "none" /\ pb_batch = <<>> /\ pb_batches = <<>>
    /\ pb_written = <<>> /\ pb_unwritable = {} /\ pb_in_bufs = <<>>
    /\ pb_out_bufs = <<>> /\ pb_sizes = <<>> /\ pb_paras = <<>>
    /\ pb_out_sizes = <<>> /\ pb_mem = <<>> /\ pb_alloc = {} /\ pb_cpe = <<>>
    /\ pb_acc = <<>> /\ pb_i = 0 /\ pb_outfiles = <<>> /\ pb_failed = 0
    /\ pb_success = 0
ScOff == sc_qual = <<>> /\ sc_i = 0 /\ sc_score = 0 /\ sc_rec_score = 0 /\ sc_pc = "off"
PsOff ==
    /\ ps_line = <<>> /\ ps_sort = <<>> /\ ps_region = <<>> /\ ps_markdup = <<>>
    /\ ps_static = <<>> /\ ps_pc = "off"
StOff ==
    /\ st_chroms = <<>> /\ st_region_size = 0 /\ st_sam = <<>> /\ st_next = 0
    /\ st_buffers = <<>> /\ st_files = <<>> /\ st_pc = "off"
NmOff ==
    /\ nm_tool = "" /\ nm_input = <<>> /\ nm_region = <<>> /\ nm_path = <<>>
    /\ nm_parsed = <<>> /\ nm_pc = "off"
RlOff ==
    /\ rl_chr = <<>> /\ rl_target = 0 /\ rl_b = 0 /\ rl_accum = 0 /\ rl_start = 0
    /\ rl_in_loop = {} /\ rl_pc = "off"
WrOff ==
    /\ wr_line = <<>> /\ wr_rec = <<>> /\ wr_out_pos = 0 /\ wr_cap = 0 /\ wr_calls = <<>>
    /\ wr_ret = 0 /\ wr_pc = "off"
RfOff ==
    /\ rf_map = <<>> /\ rf_tid = <<>> /\ rf_last = <<>>
SwOff ==
    /\ sw_w = <<>> /\ sw_log = <<>> /\ sw_r = <<>> /\ sw_read = <<>> /\ sw_pc = "off"

(***************************************************************************)
(* Bounds of the model.                                                    *)
(***************************************************************************)
MaxRecords == 3
MaxBins == 3
MaxRegionLines == 3
MaxLines == 3
MaxSamLines == 4

(***************************************************************************)
(* Generic helpers.                                                        *)
(***************************************************************************)
Range(s) == {s[i] : i \in 1..Len(s)}

Injective(n) == {p \in [1..n -> 1..n] : \A a, b \in 1..n : p[a] = p[b] => a = b}

SeqsUpTo(S, n) == UNION {[1..k -> S] : k \in 0..n}

\* F applied to the value of x, with x evaluated once
Let(x, F(_)) == CHOOSE y \in {F(v) : v \in {x}} : TRUE

HasBit(f, b) == (f \div b) % 2 = 1

(***************************************************************************)
(* SAM flags, src/slave/slave.c:221-232.                                   *)
(***************************************************************************)
BAM_FPAIRED == 1
BAM_FUNMAP == 4
BAM_FREVERSE == 16
BAM_FMREVERSE == 32
BAM_FSECONDARY == 256
BAM_FDUP == 1024
BAM_FSUPPLEMENTARY == 2048

\* flag & (BAM_FUNMAP | BAM_FSECONDARY | BAM_FSUPPLEMENTARY), slave.c:417
SkipFlag(flag) ==
    HasBit(flag, BAM_FUNMAP) \/ HasBit(flag, BAM_FSECONDARY)
        \/ HasBit(flag, BAM_FSUPPLEMENTARY)

\* slave.c:383-387
Orientation(flag) ==
    IF HasBit(flag, BAM_FPAIRED)
    THEN (IF HasBit(flag, BAM_FREVERSE) THEN 1 ELSE 0)
         + 2 * (IF HasBit(flag, BAM_FMREVERSE) THEN 1 ELSE 0)
    ELSE 0

(***************************************************************************)
(* Duplicate marking on parsed records, src/slave/slave.c:393-439 (the     *)
(* same code is src/sw-markdup/slave/slave.c:234-292).                     *)
(***************************************************************************)
\* the sign of compare_records(a, b)
compare_records(ra, rb) ==
    IF ra.tid # rb.tid THEN ra.tid - rb.tid
    ELSE IF ra.pos # rb.pos THEN (IF ra.pos < rb.pos THEN -1 ELSE 1)
    ELSE IF ra.mate_tid # rb.mate_tid THEN ra.mate_tid - rb.mate_tid
    ELSE IF ra.mate_pos # rb.mate_pos
         THEN (IF ra.mate_pos < rb.mate_pos THEN -1 ELSE 1)
    ELSE IF ra.orientation # rb.orientation
         THEN ra.orientation - rb.orientation
    ELSE 0

\* qsort(3) with compare_records: the order of records that compare equal is
\* unspecified, so every ordered permutation is a possible outcome.
QsortOutcomes(recs) ==
    LET n == Len(recs) IN
    {[i \in 1..n |-> recs[p[i]]] : p \in
        {q \in Injective(n) :
            \A i \in 1..(n - 1) : compare_records(recs[q[i]], recs[q[i + 1]]) <= 0}}

\* a mutant of ScanInner: a new best record does not mark the previous best
RECURSIVE ScanInner_KeepOldBest(_, _, _, _)
ScanInner_KeepOldBest(recs, i, best, j) ==
    IF j <= Len(recs) /\ compare_records(recs[i], recs[j]) = 0
    THEN IF recs[j].score > recs[best].score
         THEN ScanInner_KeepOldBest(recs, i, j, j + 1)
         ELSE ScanInner_KeepOldBest([recs EXCEPT ![j].is_duplicate = 1], i, best, j + 1)
    ELSE [recs |-> recs, j |-> j]

\* the inner while loop of the scan (slave.c:426-435), indices from 1
RECURSIVE ScanInner(_, _, _, _)
ScanInner(recs, i, best, j) ==
    IF j <= Len(recs) /\ compare_records(recs[i], recs[j]) = 0
    THEN IF recs[j].score > recs[best].score
         THEN ScanInner([recs EXCEPT ![best].is_duplicate = 1], i, j, j + 1)
         ELSE ScanInner([recs EXCEPT ![j].is_duplicate = 1], i, best, j + 1)
    ELSE [recs |-> recs, j |-> j]

\* the outer while loop of the scan (slave.c:414-438)
RECURSIVE ScanOuter(_, _)
ScanOuter(recs, i) ==
    IF i > Len(recs) THEN recs
    ELSE IF SkipFlag(recs[i].flag) THEN ScanOuter(recs, i + 1)
    ELSE LET r == ScanInner(recs, i, i, i + 1) IN ScanOuter(r.recs, r.j)

\* every result mark_duplicates_sorted can leave in list->records
mark_duplicates_sorted(recs) ==
    IF Len(recs) <= 1 THEN {recs}
    ELSE {ScanOuter(s, 1) : s \in QsortOutcomes(recs)}

(***************************************************************************)
(* Parsed records for the record-level check of duplicate marking.         *)
(***************************************************************************)
\* a sam_record_t as parse_sam_line_markdup fills it (slave.c:243-256)
SamRecord(off, flag, tid, pos, mtid, mpos, score) ==
    [line_offset |-> off, flag |-> flag, tid |-> tid, pos |-> pos,
     mate_tid |-> mtid, mate_pos |-> mpos, score |-> score,
     orientation |-> Orientation(flag), is_duplicate |-> 0]

MdFlags == {0, 256, 17}
MdScores == {10, 20}
MdMatePos == {300, 400}

MdRecordLists ==
    UNION {
        {[i \in 1..n |-> SamRecord(i, t[i][1], 0, 100, 0, t[i][2], t[i][3])] :
            t \in [1..n -> MdFlags \X MdMatePos \X MdScores]}
        : n \in 0..MaxRecords}

MdInit ==
    list \in MdRecordLists /\ md_pc = "parsed" /\ ArOff /\ SfOff /\ JobOff /\ PbOff /\ ScOff /\ PsOff /\ StOff /\ NmOff /\ RlOff /\ WrOff /\ RfOff /\ SwOff

MarkDuplicatesSorted ==
    /\ md_pc = "parsed"
    /\ list' \in mark_duplicates_sorted(list)
    /\ md_pc' = "marked"
    /\ UNCHANGED notMd

MdNext == MarkDuplicatesSorted

SpecMarkdup == MdInit /\ [][MdNext]_vars

(***************************************************************************)
(* Claims on duplicate marking.                                            *)
(***************************************************************************)
DupKey(r) == <<r.tid, r.pos, r.mate_tid, r.mate_pos, r.orientation>>

Eligible(r) == ~SkipFlag(r.flag)

EligibleWithKey(k) ==
    {i \in 1..Len(list) : Eligible(list[i]) /\ DupKey(list[i]) = k}

\* C1: after mark_duplicates_sorted at most one eligible record per duplicate
\* key is unmarked, and an unmarked eligible record has a score >= the score
\* of every other eligible record with the same key.
C1_AtMostOneSurvivorWithMaxScore ==
    md_pc = "marked" =>
        \A i, j \in 1..Len(list) :
            (i # j /\ Eligible(list[i]) /\ Eligible(list[j])
                   /\ DupKey(list[i]) = DupKey(list[j])
                   /\ list[i].is_duplicate = 0)
            => /\ list[j].is_duplicate = 1
               /\ list[i].score >= list[j].score

C1_Witness ==
    /\ md_pc = "marked"
    /\ \E i, j \in 1..Len(list) :
          /\ i < j
          /\ Eligible(list[i]) /\ Eligible(list[j])
          /\ DupKey(list[i]) = DupKey(list[j])
          /\ list[j].is_duplicate = 0 /\ list[i].is_duplicate = 1
          /\ list[j].score > list[i].score

\* C2: for every duplicate key with at least one eligible record exactly one
\* eligible record with that key is unmarked after the scan, and among equal
\* best scores the survivor is the one at the lowest position of the sorted
\* array.
C2_ExactlyOneSurvivor ==
    md_pc = "marked" =>
        \A k \in {DupKey(list[i]) : i \in 1..Len(list)} :
            EligibleWithKey(k) # {} =>
                \E s \in EligibleWithKey(k) :
                    /\ list[s].is_duplicate = 0
                    /\ \A o \in EligibleWithKey(k) \ {s} :
                          /\ list[o].is_duplicate = 1
                          /\ list[o].score <= list[s].score
                          /\ (list[o].score = list[s].score => s < o)

\* C3: a record with the unmapped, secondary or supplementary bit is never
\* marked and never takes part in the choice of a survivor: every marked
\* record is eligible and lost to an unmarked eligible record of its key.
C3_IneligibleNeverTakesPart ==
    md_pc = "marked" =>
        \A i \in 1..Len(list) :
            list[i].is_duplicate = 1 =>
                /\ Eligible(list[i])
                /\ \E s \in EligibleWithKey(DupKey(list[i])) :
                      list[s].is_duplicate = 0 /\ list[s].score >= list[i].score

(***************************************************************************)
(* Region partitioner, src/pre-tools/auto_region.cpp.                      *)
(***************************************************************************)
BIN_SIZE == 1000

Min(a, b) == IF a < b THEN a ELSE b

\* parse_fasta, auto_region.cpp:164-173: the bins of a chromosome
NumBins(length) ==
    IF length <= 0 THEN 0 ELSE (length + BIN_SIZE - 1) \div BIN_SIZE

ChrInfo(name, length, weights) ==
    [name |-> name, length |-> length, num_bins |-> NumBins(length),
     bin_weight |-> weights, regions |-> <<>>]

\* a mutant of RegionLoop: the next region starts at the closing bin's end
RECURSIVE RegionLoop_StartAtBinEnd(_, _, _, _, _, _)
RegionLoop_StartAtBinEnd(c, target, b, accum_bytes, region_start, regs) ==
    LET chr_len == c.length
        tail == IF region_start <= chr_len
                THEN Append(regs, [start |-> region_start, end |-> chr_len])
                ELSE regs
    IN  IF b >= c.num_bins THEN tail
        ELSE LET w == c.bin_weight[b + 1]
                 bin_end_pos == Min((b + 1) * BIN_SIZE, chr_len)
             IN  IF region_start > chr_len THEN tail
                 ELSE IF accum_bytes + w >= target
                 THEN RegionLoop_StartAtBinEnd(c, target, b + 1, 0, bin_end_pos,
                         Append(regs, [start |-> region_start, end |-> bin_end_pos]))
                 ELSE RegionLoop_StartAtBinEnd(c, target, b + 1, accum_bytes + w,
                         region_start, regs)

\* a mutant of RegionLoop: no tail region behind the last closed one
RECURSIVE RegionLoop_NoTail(_, _, _, _, _, _)
RegionLoop_NoTail(c, target, b, accum_bytes, region_start, regs) ==
    LET chr_len == c.length IN
    IF b >= c.num_bins THEN regs
    ELSE LET w == c.bin_weight[b + 1]
             bin_end_pos == Min((b + 1) * BIN_SIZE, chr_len)
         IN  IF region_start > chr_len THEN regs
             ELSE IF accum_bytes + w >= target
             THEN RegionLoop_NoTail(c, target, b + 1, 0, bin_end_pos + 1,
                     Append(regs, [start |-> region_start, end |-> bin_end_pos]))
             ELSE RegionLoop_NoTail(c, target, b + 1, accum_bytes + w,
                     region_start, regs)

\* the bin loop and the tail region of build_regions_for_chr
\* (auto_region.cpp:383-419); b counts from 0 as in the code
RECURSIVE RegionLoop(_, _, _, _, _, _)
RegionLoop(c, target, b, accum_bytes, region_start, regs) ==
    LET chr_len == c.length
        tail == IF region_start <= chr_len
                THEN Append(regs, [start |-> region_start, end |-> chr_len])
                ELSE regs
    IN  IF b >= c.num_bins THEN tail
        ELSE LET w == c.bin_weight[b + 1]
                 bin_end_pos == Min((b + 1) * BIN_SIZE, chr_len)
             IN  IF region_start > chr_len THEN tail
                 ELSE IF accum_bytes + w >= target
                 THEN RegionLoop(c, target, b + 1, 0, bin_end_pos + 1,
                         Append(regs, [start |-> region_start, end |-> bin_end_pos]))
                 ELSE RegionLoop(c, target, b + 1, accum_bytes + w,
                         region_start, regs)

\* build_regions_for_chr (auto_region.cpp:372-423): the new c.regions
build_regions_for_chr(c, target) ==
    IF c.length <= 0 THEN c.regions
    ELSE IF c.num_bins = 0 \/ c.bin_weight = <<>>
    THEN Append(c.regions, [start |-> 1, end |-> c.length])
    ELSE c.regions \o RegionLoop(c, target, 0, 0, 1, <<>>)

\* main, auto_region.cpp:778-782: regions of every chromosome
BuildRegions ==
    /\ ar_pc = "loaded"
    /\ chrs' = [i \in 1..Len(chrs) |->
                  [chrs[i] EXCEPT !.regions = build_regions_for_chr(chrs[i], target_bytes)]]
    /\ ar_pc' = "regions"
    /\ UNCHANGED <<target_bytes, sam_buf, header_lines, records, files, notAr>>

(***************************************************************************)
(* build_regions_for_chr on every weight table and target.                 *)
(***************************************************************************)
NAME_chr1 == <<99, 104, 114, 49>>
NAME_chr2 == <<99, 104, 114, 50>>

BrLengths == {(k - 1) * BIN_SIZE + r : k \in 1..MaxBins, r \in {1, 500, BIN_SIZE}}
BrWeights == {0, 1, 3}
BrTargets == {0, 1, 2, 4, 7}

BrInit ==
    /\ \E len \in BrLengths : \E w \in [1..NumBins(len) -> BrWeights] :
          chrs = <<ChrInfo(NAME_chr1, len, w)>>
    /\ target_bytes \in BrTargets
    /\ ar_pc = "loaded"
    /\ SamOff /\ MdOff /\ SfOff /\ JobOff /\ PbOff /\ ScOff /\ PsOff /\ StOff /\ NmOff /\ RlOff /\ WrOff /\ RfOff /\ SwOff

BrNext == BuildRegions

SpecBuildRegions == BrInit /\ [][BrNext]_vars

\* C6: the regions of a chromosome of length >= 1 are in increasing order,
\* each has start <= end, the first starts at 1, each following one starts
\* at the previous end + 1 and the last ends at the chromosome length.
C6_RegionsTileChromosome ==
    ar_pc = "regions" =>
        \A c \in 1..Len(chrs) :
            LET rg == chrs[c].regions IN
            chrs[c].length >= 1 =>
                /\ Len(rg) >= 1
                /\ rg[1].start = 1
                /\ rg[Len(rg)].end = chrs[c].length
                /\ \A i \in 1..Len(rg) : rg[i].start <= rg[i].end
                /\ \A i \in 1..(Len(rg) - 1) : rg[i + 1].start = rg[i].end + 1

C6_Witness ==
    /\ ar_pc = "regions"
    /\ Len(chrs[1].regions) = 2
    /\ chrs[1].length % BIN_SIZE # 0
    /\ chrs[1].regions[1].end = 2 * BIN_SIZE
    /\ chrs[1].regions[2].start = 2 * BIN_SIZE + 1

(***************************************************************************)
(* Region locator, src/pre-tools/split_from_region.cpp.                    *)
(***************************************************************************)
MAX_REGION_NUM == 3000

\* load_regions (split_from_region.cpp:120-219) on the parsed lines of
\* region.txt: [ok, regions]; the first invalid line ends the program
RECURSIVE load_regions(_, _)
load_regions(lines, regions) ==
    IF lines = <<>> THEN [ok |-> TRUE, regions |-> regions]
    ELSE LET r == Head(lines) IN
         IF r.start <= 0 \/ r.start > r.end
         THEN [ok |-> FALSE, regions |-> regions]
         ELSE IF Len(regions) + 1 >= MAX_REGION_NUM
         THEN [ok |-> FALSE, regions |-> Append(regions, r)]
         ELSE load_regions(Tail(lines), Append(regions, r))

\* main, split_from_region.cpp:557-569
LoadRegions ==
    /\ sf_pc = "start"
    /\ LET res == load_regions(region_txt, <<>>) IN
        /\ sf_regions' = res.regions
        /\ sf_pc' = IF res.ok /\ res.regions # <<>> THEN "loaded" ELSE "exit1"
    /\ region_txt' = <<>>
    /\ UNCHANGED <<chr2regs, sf_query, sf_found, notSf>>

\* the comparator of build_chr_region_index (split_from_region.cpp:299-304)
RegionLess(ra, rb) ==
    IF ra.start # rb.start THEN ra.start < rb.start ELSE ra.end < rb.end

\* the region indices (from 0) of one chromosome in every order std::sort
\* may leave them (split_from_region.cpp:290-305)
SortedIndexLists(regions, chr) ==
    LET idxs == {i \in 1..Len(regions) : regions[i].chr = chr}
        n == Cardinality(idxs)
    IN  {s \in [1..n -> {i - 1 : i \in idxs}] :
            /\ \A a, b \in 1..n : s[a] = s[b] => a = b
            /\ \A a \in 1..(n - 1) :
                  ~RegionLess(regions[s[a + 1] + 1], regions[s[a] + 1])}

\* split_by_regions, split_from_region.cpp:375-376
BuildChrRegionIndex ==
    /\ sf_pc = "loaded"
    /\ chr2regs' \in
          [{sf_regions[i].chr : i \in 1..Len(sf_regions)} ->
              UNION {SortedIndexLists(sf_regions, sf_regions[i].chr) :
                        i \in 1..Len(sf_regions)}]
    /\ \A c \in DOMAIN chr2regs' :
          chr2regs'[c] \in SortedIndexLists(sf_regions, c)
    /\ sf_pc' = "indexed"
    /\ UNCHANGED <<region_txt, sf_regions, sf_query, sf_found, notSf>>

\* a mutant of FindLoop: a position past the region's end also moves right
RECURSIVE FindLoop_AlwaysLeft(_, _, _, _, _)
FindLoop_AlwaysLeft(regions, idxs, pos, left, right) ==
    IF left > right THEN -1
    ELSE LET mid == (left + right) \div 2
             r == regions[idxs[mid + 1] + 1]
         IN  IF pos < r.start
             THEN FindLoop_AlwaysLeft(regions, idxs, pos, left, mid - 1)
             ELSE IF pos > r.end
             THEN FindLoop_AlwaysLeft(regions, idxs, pos, left, mid - 1)
             ELSE idxs[mid + 1]

\* the binary search of find_region_for_pos (split_from_region.cpp:319-335)
RECURSIVE FindLoop(_, _, _, _, _)
FindLoop(regions, idxs, pos, left, right) ==
    IF left > right THEN -1
    ELSE LET mid == (left + right) \div 2
             r == regions[idxs[mid + 1] + 1]
         IN  IF pos < r.start THEN FindLoop(regions, idxs, pos, left, mid - 1)
             ELSE IF pos > r.end THEN FindLoop(regions, idxs, pos, mid + 1, right)
             ELSE idxs[mid + 1]

\* find_region_for_pos (split_from_region.cpp:310-336)
find_region_for_pos(chr, pos, regions, c2r) ==
    IF chr \notin DOMAIN c2r THEN -1
    ELSE FindLoop(regions, c2r[chr], pos, 0, Len(c2r[chr]) - 1)

\* split_by_regions, split_from_region.cpp:423-433: one alignment line
\* with a positive position is looked up
SfChrs == {NAME_chr1, NAME_chr2}
SfPositions == 1..5

FindRegionForPos ==
    /\ sf_pc \in {"indexed", "found"}
    /\ \E chr \in SfChrs, pos \in SfPositions :
          /\ sf_query' = <<chr, pos>>
          /\ sf_found' = find_region_for_pos(chr, pos, sf_regions, chr2regs)
    /\ sf_pc' = "found"
    /\ UNCHANGED <<region_txt, sf_regions, chr2regs, notSf>>

RegionLine(chr, start, end) == [chr |-> chr, start |-> start, end |-> end]

SfRegionLines ==
    {RegionLine(NAME_chr1, iv[1], iv[2]) :
        iv \in {<<1, 4>>, <<1, 1>>, <<2, 2>>, <<3, 3>>, <<2, 3>>, <<4, 5>>, <<0, 2>>}}
    \cup {RegionLine(NAME_chr2, 2, 3)}

SfInit ==
    /\ region_txt \in SeqsUpTo(SfRegionLines, MaxRegionLines)
    /\ sf_regions = <<>> /\ chr2regs = <<>>
    /\ sf_query = <<>> /\ sf_found = -1 /\ sf_pc = "start"
    /\ MdOff /\ ArOff /\ JobOff /\ PbOff /\ ScOff /\ PsOff /\ StOff /\ NmOff /\ RlOff /\ WrOff /\ RfOff /\ SwOff

SfNext == LoadRegions \/ BuildChrRegionIndex \/ FindRegionForPos

SpecLocate == SfInit /\ [][SfNext]_vars

Contains(r, chr, pos) == r.chr = chr /\ r.start <= pos /\ pos <= r.end

Containing(chr, pos) ==
    {i \in 1..Len(sf_regions) : Contains(sf_regions[i], chr, pos)}

NoOverlap ==
    \A i, j \in 1..Len(sf_regions) :
        (i # j /\ sf_regions[i].chr = sf_regions[j].chr)
        => (sf_regions[i].end < sf_regions[j].start
            \/ sf_regions[j].end < sf_regions[i].start)

\* C8 as stated: for every set of regions load_regions accepts,
\* find_region_for_pos returns the index of a region of the chromosome that
\* contains the position whenever one does, and -1 only when none does.
C8_FindsContainingRegion ==
    sf_pc = "found" =>
        IF Containing(sf_query[1], sf_query[2]) # {}
        THEN sf_found + 1 \in Containing(sf_query[1], sf_query[2])
        ELSE sf_found = -1

\* C8 amended: the same, for region sets in which no two regions of one
\* chromosome overlap.
C8_FindsContainingRegionNoOverlap ==
    (sf_pc = "found" /\ NoOverlap) =>
        IF Containing(sf_query[1], sf_query[2]) # {}
        THEN sf_found + 1 \in Containing(sf_query[1], sf_query[2])
        ELSE sf_found = -1

C8_Witness ==
    /\ sf_pc = "found" /\ NoOverlap
    /\ Len(sf_regions) = 3
    /\ \A i \in 1..3 : sf_regions[i].chr = NAME_chr1
    /\ sf_regions[1].start > sf_regions[2].start
    /\ sf_query = <<NAME_chr1, 5>>
    /\ sf_found = 2

(***************************************************************************)
(* The worker job, src/slave/slave.c.  A buffer is a sequence of byte      *)
(* values; offsets count from 0 as in the code.                            *)
(***************************************************************************)
TAB == 9
NL == 10
CR == 13
CH_STAR == 42
CH_MINUS == 45
CH_0 == 48
CH_9 == 57
CH_EQ == 61
CH_AT == 64

MODE_SORT_ONLY == 1
MODE_MARKDUP_ONLY == 2
MODE_ALL == 3

At(buf, i) == buf[i + 1]

Slice(buf, off, len) == SubSeq(buf, off + 1, off + len)

\* the field loop of parse_rname_pos (slave.c:52-67) on the line's text;
\* -1 stands for a null pointer
RECURSIVE FieldScan(_, _, _, _, _, _)
FieldScan(text, p, field, field_start, rs, re) ==
    LET end == Len(text)
        none == [rname_start |-> rs, rname_end |-> re, pos_start |-> -1, pos_end |-> -1]
    IN  IF p > end THEN none
        ELSE IF p = end \/ At(text, p) = TAB
        THEN IF field = 3
             THEN [rname_start |-> rs, rname_end |-> re,
                   pos_start |-> field_start, pos_end |-> p]
             ELSE LET rs2 == IF field = 2 THEN field_start ELSE rs
                      re2 == IF field = 2 THEN p ELSE re
                  IN  IF p = end
                      THEN [rname_start |-> rs2, rname_end |-> re2,
                            pos_start |-> -1, pos_end |-> -1]
                      ELSE FieldScan(text, p + 1, field + 1, p + 1, rs2, re2)
        ELSE FieldScan(text, p + 1, field, field_start, rs, re)

\* the digit loop of parse_rname_pos (slave.c:89-92)
RECURSIVE DigitLoop(_, _, _, _)
DigitLoop(text, q, pos_end, value) ==
    IF q < pos_end /\ At(text, q) >= CH_0 /\ At(text, q) <= CH_9
    THEN DigitLoop(text, q + 1, pos_end, value * 10 + (At(text, q) - CH_0))
    ELSE [q |-> q, value |-> value]

\* parse_rname_pos (slave.c:31-100): the parsed fields of a LineInfo
parse_rname_pos(text) ==
    LET invalid == [rname |-> <<>>, rname_len |-> 0, pos |-> -1, valid |-> 0] IN
    IF Len(text) = 0 THEN invalid
    ELSE LET f == FieldScan(text, 0, 0, 0, -1, -1) IN
         IF f.rname_start = -1 \/ f.pos_start = -1 THEN invalid
         ELSE LET rname == Slice(text, f.rname_start, f.rname_end - f.rname_start)
                  named == [rname |-> rname, rname_len |-> Len(rname),
                            pos |-> -1, valid |-> 0]
                  neg == f.pos_start < f.pos_end /\ At(text, f.pos_start) = CH_MINUS
                  q0 == IF neg THEN f.pos_start + 1 ELSE f.pos_start
              IN  IF q0 = f.pos_end THEN named
                  ELSE LET d == DigitLoop(text, q0, f.pos_end, 0) IN
                       IF d.q # f.pos_end THEN named
                       ELSE [named EXCEPT !.pos = IF neg THEN -d.value ELSE d.value,
                                          !.valid = 1]

\* memcmp(a, b, len) (slave.c:107), from byte k on
RECURSIVE Memcmp(_, _, _, _)
Memcmp(a, b, k, len) ==
    IF k >= len THEN 0
    ELSE IF At(a, k) # At(b, k) THEN At(a, k) - At(b, k)
    ELSE Memcmp(a, b, k + 1, len)

\* cmp_rname (slave.c:103-112)
cmp_rname(a, b) ==
    LET len == Min(a.rname_len, b.rname_len)
        r == IF len > 0 THEN Memcmp(a.rname, b.rname, 0, len) ELSE 0
    IN  IF r # 0 THEN r
        ELSE IF a.rname_len < b.rname_len THEN -1
        ELSE IF a.rname_len > b.rname_len THEN 1
        ELSE 0

\* cmp_line (slave.c:115-137)
cmp_line(a, b) ==
    LET by_start == IF a.start < b.start THEN -1
                    ELSE IF a.start > b.start THEN 1 ELSE 0
    IN  IF a.valid = 0 /\ b.valid = 0 THEN by_start
        ELSE IF a.valid = 0 THEN -1
        ELSE IF b.valid = 0 THEN 1
        ELSE LET cr == cmp_rname(a, b) IN
             IF cr < 0 THEN -1
             ELSE IF cr > 0 THEN 1
             ELSE IF a.pos < b.pos THEN -1
             ELSE IF a.pos > b.pos THEN 1
             ELSE by_start

\* while (cmp_line(&arr[i], &pivot) < 0) ++i;  (slave.c:147)
RECURSIVE ScanUp(_, _, _)
ScanUp(arr, i, pivot) ==
    IF i <= Len(arr) /\ cmp_line(arr[i], pivot) < 0
    THEN ScanUp(arr, i + 1, pivot) ELSE i

\* while (cmp_line(&arr[j], &pivot) > 0) --j;  (slave.c:148)
RECURSIVE ScanDown(_, _, _)
ScanDown(arr, j, pivot) ==
    IF j >= 1 /\ cmp_line(arr[j], pivot) > 0
    THEN ScanDown(arr, j - 1, pivot) ELSE j

\* the partition loop of quicksort_lineinfo (slave.c:146-156)
RECURSIVE Partition(_, _, _, _)
Partition(arr, i, j, pivot) ==
    IF i <= j
    THEN LET i2 == ScanUp(arr, i, pivot)
             j2 == ScanDown(arr, j, pivot)
         IN  IF i2 <= j2
             THEN Partition([arr EXCEPT ![i2] = arr[j2], ![j2] = arr[i2]],
                            i2 + 1, j2 - 1, pivot)
             ELSE [arr |-> arr, i |-> i2, j |-> j2]
    ELSE [arr |-> arr, i |-> i, j |-> j]

\* quicksort_lineinfo (slave.c:140-159); arr is indexed from 1, so the
\* pivot arr[(left + right) / 2] of the code is arr[(left + right) \div 2]
RECURSIVE quicksort_lineinfo(_, _, _)
quicksort_lineinfo(arr, left, right) ==
    LET r == Partition(arr, left, right, arr[(left + right) \div 2])
        a1 == IF left < r.j THEN quicksort_lineinfo(r.arr, left, r.j) ELSE r.arr
    IN  IF r.i < right THEN quicksort_lineinfo(a1, r.i, right) ELSE a1

\* while (i < size && buf[i] != '\n') ++i;  (slave.c:193)
RECURSIVE LineEnd(_, _, _)
LineEnd(buf, sz, i) ==
    IF i < sz /\ At(buf, i) # NL THEN LineEnd(buf, sz, i + 1) ELSE i

\* the line count of parse_sam_lines (slave.c:168-179)
CountLines(buf, sz) ==
    Cardinality({i \in 0..(sz - 1) : At(buf, i) = NL})
        + (IF sz > 0 /\ At(buf, sz - 1) # NL THEN 1 ELSE 0)

\* the fill loop of parse_sam_lines (slave.c:189-212)
RECURSIVE FillLines(_, _, _, _, _)
FillLines(buf, sz, i, n_lines, lines) ==
    IF i < sz /\ Len(lines) < n_lines
    THEN LET line_end == LineEnd(buf, sz, i)
             has_nl == line_end < sz
             i2 == IF has_nl THEN line_end + 1 ELSE line_end
             text_len == line_end - i
             info == IF text_len > 0
                     THEN parse_rname_pos(Slice(buf, i, text_len))
                     ELSE [rname |-> <<>>, rname_len |-> 0, pos |-> -1, valid |-> 0]
         IN  FillLines(buf, sz, i2, n_lines,
                 Append(lines, [start |-> i,
                                len |-> IF has_nl THEN i2 - i ELSE line_end - i,
                                rname |-> info.rname, rname_len |-> info.rname_len,
                                pos |-> info.pos, valid |-> info.valid]))
    ELSE lines

\* parse_sam_lines (slave.c:162-216)
parse_sam_lines(buf, sz) ==
    IF sz = 0 THEN <<>> ELSE FillLines(buf, sz, 0, CountLines(buf, sz), <<>>)

\* the copy loop of the sort (slave.c:626-635 and 658-667)
RECURSIVE CopyLines(_, _, _, _, _)
CopyLines(buf, sz, lines, i, out) ==
    IF i > Len(lines) THEN out
    ELSE IF lines[i].len = 0 THEN CopyLines(buf, sz, lines, i + 1, out)
    ELSE IF Len(out) + lines[i].len > sz THEN out
    ELSE CopyLines(buf, sz, lines, i + 1,
                   out \o Slice(buf, lines[i].start, lines[i].len))

\* the sort step of sam_process_cpe (slave.c:618-635): the bytes written
\* to out_buf
SortToOut(buf, sz) ==
    LET lines == parse_sam_lines(buf, sz)
        sorted == IF Len(lines) > 1
                  THEN quicksort_lineinfo(lines, 1, Len(lines)) ELSE lines
    IN  CopyLines(buf, sz, sorted, 1, <<>>)

(***************************************************************************)
(* Duplicate marking on the bytes of a buffer, src/slave/slave.c:266-589.  *)
(***************************************************************************)
MAX_REFS == 256
CH_SPACE == 32
CH_PLUS == 43
PHRED_BASE == 33
PHRED_CAP == 15
UINT16 == 65536

\* the digits atoi(3) accumulates from offset q on
RECURSIVE AtoiDigits(_, _, _)
AtoiDigits(buf, q, value) ==
    IF q < Len(buf) /\ At(buf, q) >= CH_0 /\ At(buf, q) <= CH_9
    THEN AtoiDigits(buf, q + 1, value * 10 + (At(buf, q) - CH_0))
    ELSE value

\* the white space atoi(3) skips (isspace)
RECURSIVE AtoiSkip(_, _)
AtoiSkip(buf, q) ==
    IF q < Len(buf) /\ (At(buf, q) = CH_SPACE \/ (At(buf, q) >= TAB /\ At(buf, q) <= CR))
    THEN AtoiSkip(buf, q + 1) ELSE q

\* atoi(buf + off) as slave.c:344, 352 and 364 call it: the text is not
\* cut at the end of the field
Atoi(buf, off) ==
    LET q == AtoiSkip(buf, off)
        signed == q < Len(buf) /\ (At(buf, q) = CH_MINUS \/ At(buf, q) = CH_PLUS)
        v == AtoiDigits(buf, IF signed THEN q + 1 ELSE q, 0)
    IN  IF q < Len(buf) /\ At(buf, q) = CH_MINUS THEN -v ELSE v

\* snprintf(flag_str, ..., "%d", n) for n >= 0 (slave.c:455)
RECURSIVE Dec(_)
Dec(n) ==
    IF n < 10 THEN <<CH_0 + n>> ELSE Append(Dec(n \div 10), CH_0 + (n % 10))

\* get_ref_id (slave.c:266-285): the id returned and the map afterwards
get_ref_id(map, rname) ==
    IF Len(rname) = 1 /\ rname[1] = CH_STAR THEN [id |-> -1, map |-> map]
    ELSE IF \E i \in 1..Len(map) : map[i] = rname
    THEN [id |-> (CHOOSE i \in 1..Len(map) :
                     map[i] = rname /\ \A k \in 1..(i - 1) : map[k] # rname) - 1,
          map |-> map]
    ELSE IF Len(map) >= MAX_REFS THEN [id |-> -1, map |-> map]
    ELSE [id |-> Len(map),
          map |-> Append(map, IF Len(rname) >= 256 THEN SubSeq(rname, 1, 255) ELSE rname)]

\* calc_score (slave.c:314-322)
RECURSIVE calc_score(_)
calc_score(qual) ==
    IF qual = <<>> THEN 0
    ELSE LET q0 == Head(qual) - PHRED_BASE
             q == IF q0 > PHRED_CAP THEN PHRED_CAP ELSE q0
         IN  (IF q > 0 THEN q ELSE 0) + calc_score(Tail(qual))

\* the switch of parse_sam_line_markdup (slave.c:340-375) for one field
ParseField(buf, field, fs, field_len, rec, map) ==
    IF field = 1
    THEN [rec |-> [rec EXCEPT !.flag_offset = fs, !.flag_len = field_len % UINT16,
                              !.flag = Atoi(buf, fs) % UINT16],
          map |-> map]
    ELSE IF field = 2
    THEN LET g == get_ref_id(map, Slice(buf, fs, field_len))
         IN  [rec |-> [rec EXCEPT !.tid = g.id], map |-> g.map]
    ELSE IF field = 3
    THEN [rec |-> [rec EXCEPT !.pos = Atoi(buf, fs)], map |-> map]
    ELSE IF field = 6
    THEN IF field_len = 1 /\ At(buf, fs) = CH_EQ
         THEN [rec |-> [rec EXCEPT !.mate_tid = rec.tid], map |-> map]
         ELSE LET g == get_ref_id(map, Slice(buf, fs, field_len))
              IN  [rec |-> [rec EXCEPT !.mate_tid = g.id], map |-> g.map]
    ELSE IF field = 7
    THEN [rec |-> [rec EXCEPT !.mate_pos = Atoi(buf, fs)], map |-> map]
    ELSE IF field = 10
    THEN LET s == calc_score(Slice(buf, fs, field_len))
         IN  [rec |-> [rec EXCEPT !.score = IF s > UINT16 - 1 THEN UINT16 - 1 ELSE s],
              map |-> map]
    ELSE [rec |-> rec, map |-> map]

\* the field loop of parse_sam_line_markdup (slave.c:336-381); p, fs and
\* end are offsets into buf
RECURSIVE ParseLoop(_, _, _, _, _, _, _)
ParseLoop(buf, end, p, field, fs, rec, map) ==
    IF p < end /\ field < 11
    THEN IF At(buf, p) = TAB \/ p = end - 1
         THEN LET field_len == IF p = end - 1 /\ At(buf, p) # TAB
                               THEN end - fs ELSE p - fs
              IN  Let(ParseField(buf, field, fs, field_len, rec, map),
                      LAMBDA r : ParseLoop(buf, end, p + 1, field + 1, p + 1,
                                           r.rec, r.map))
         ELSE ParseLoop(buf, end, p + 1, field, fs, rec, map)
    ELSE [field |-> field, rec |-> rec, map |-> map]

\* parse_sam_line_markdup (slave.c:325-390)
parse_sam_line_markdup(buf, line_offset, len, map) ==
    LET zero == [line_offset |-> line_offset, flag_offset |-> 0, pos |-> 0,
                 mate_pos |-> 0, line_len |-> len % UINT16, flag_len |-> 0,
                 tid |-> 0, mate_tid |-> 0, flag |-> 0, score |-> 0,
                 orientation |-> 0, is_duplicate |-> 0]
        r == ParseLoop(buf, line_offset + len, line_offset, 0, line_offset, zero, map)
    IN  [ret |-> IF r.field >= 11 THEN 0 ELSE -1,
         rec |-> [r.rec EXCEPT !.orientation = Orientation(r.rec.flag)],
         map |-> r.map]

\* a mutant of write_sam_record: the record is written without the check of
\* the capacity
write_sam_record_Unchecked(buf, out, out_capacity, rec) ==
    LET new_flag == IF rec.is_duplicate = 1 /\ ~HasBit(rec.flag, BAM_FDUP)
                    THEN rec.flag + BAM_FDUP ELSE rec.flag
        after_flag_offset == rec.flag_offset + rec.flag_len
    IN  [ret |-> 0,
         out |-> out \o Slice(buf, rec.line_offset, rec.flag_offset - rec.line_offset)
                     \o Dec(new_flag)
                     \o Slice(buf, after_flag_offset,
                              rec.line_offset + rec.line_len - after_flag_offset)
                     \o <<NL>>]

\* write_sam_record (slave.c:442-482): the return value and out_buf up to
\* out_pos afterwards
write_sam_record(buf, out, out_capacity, rec) ==
    LET new_flag == IF rec.is_duplicate = 1 /\ ~HasBit(rec.flag, BAM_FDUP)
                    THEN rec.flag + BAM_FDUP ELSE rec.flag
        flag_str == Dec(new_flag)
        needed == rec.line_len - rec.flag_len + Len(flag_str) + 1
        before_flag == rec.flag_offset - rec.line_offset
        after_flag_offset == rec.flag_offset + rec.flag_len
        after_flag_len == rec.line_offset + rec.line_len - after_flag_offset
    IN  IF Len(out) + needed > out_capacity THEN [ret |-> -1, out |-> out]
        ELSE [ret |-> 0,
              out |-> out \o Slice(buf, rec.line_offset, before_flag) \o flag_str
                          \o Slice(buf, after_flag_offset, after_flag_len) \o <<NL>>]

\* the loop skipping headers and empty lines (slave.c:510-518)
RECURSIVE SkipHeaders(_, _, _)
SkipHeaders(buf, sz, pos) ==
    IF pos < sz /\ (At(buf, pos) = NL \/ At(buf, pos) = CR \/ At(buf, pos) = CH_AT)
    THEN IF At(buf, pos) = CH_AT
         THEN LET e == LineEnd(buf, sz, pos)
              IN  SkipHeaders(buf, sz, IF e < sz THEN e + 1 ELSE e)
         ELSE SkipHeaders(buf, sz, pos + 1)
    ELSE pos

\* while (pos < size && in_buf[pos] != '\n' && in_buf[pos] != '\r') pos++;
RECURSIVE RecordEnd(_, _, _)
RecordEnd(buf, sz, pos) ==
    IF pos < sz /\ At(buf, pos) # NL /\ At(buf, pos) # CR
    THEN RecordEnd(buf, sz, pos + 1) ELSE pos

\* the first pass of markdup_core (slave.c:507-545)
RECURSIVE ReadRecords(_, _, _, _, _)
ReadRecords(buf, sz, pos0, recs, map) ==
    IF pos0 >= sz THEN recs
    ELSE LET line_start == SkipHeaders(buf, sz, pos0) IN
         IF line_start >= sz THEN recs
         ELSE LET e == RecordEnd(buf, sz, line_start)
                  line_len == e - line_start
                  pos == IF e < sz /\ At(buf, e) = NL THEN e + 1 ELSE e
              IN  IF line_len = 0 THEN ReadRecords(buf, sz, pos, recs, map)
                  ELSE Let(parse_sam_line_markdup(buf, line_start, line_len, map),
                           LAMBDA r : ReadRecords(buf, sz, pos,
                               IF r.ret < 0 THEN recs ELSE Append(recs, r.rec), r.map))

\* the header copy of markdup_core (slave.c:554-572)
RECURSIVE CopyHeader(_, _, _, _, _)
CopyHeader(buf, sz, hdr_pos, out, cap) ==
    IF hdr_pos < sz /\ At(buf, hdr_pos) = CH_AT
    THEN LET e == LineEnd(buf, sz, hdr_pos)
             next == IF e < sz THEN e + 1 ELSE e
             len == next - hdr_pos
         IN  IF Len(out) + len > cap THEN [ret |-> -1, out |-> out]
             ELSE CopyHeader(buf, sz, next, out \o Slice(buf, hdr_pos, len), cap)
    ELSE [ret |-> 0, out |-> out]

\* the record loop of markdup_core (slave.c:575-579)
RECURSIVE WriteRecords(_, _, _, _, _)
WriteRecords(buf, recs, i, out, cap) ==
    IF i > Len(recs) THEN [ret |-> 0, out |-> out]
    ELSE LET w == write_sam_record(buf, out, cap, recs[i]) IN
         IF w.ret < 0 THEN w ELSE WriteRecords(buf, recs, i + 1, w.out, cap)

\* markdup_core (slave.c:485-589): every outcome, as the return value, the
\* bytes written to the output buffer and *out_size
markdup_core(buf, sz, cap) ==
    IF sz = 0 THEN {[ret |-> -1, out |-> <<>>, out_size |-> 0]}
    ELSE {LET h == CopyHeader(buf, sz, 0, <<>>, cap)
              w == IF h.ret < 0 THEN h ELSE WriteRecords(buf, marked, 1, h.out, cap)
          IN  [ret |-> w.ret, out |-> w.out,
               out_size |-> IF w.ret = 0 THEN Len(w.out) ELSE 0]
          : marked \in mark_duplicates_sorted(ReadRecords(buf, sz, 0, <<>>, <<>>))}

\* memcpy over the start of a buffer
Overwrite(old, new) ==
    IF Len(new) >= Len(old) THEN new ELSE new \o SubSeq(old, Len(new) + 1, Len(old))

(***************************************************************************)
(* sam_process_cpe (slave.c:595-686): one worker job.                      *)
(***************************************************************************)
Capacity == IF out_buf_capacity = 0 THEN size ELSE out_buf_capacity

\* if (!in_buf || !out_buf || size == 0) return;  (slave.c:606-608)
JobEmpty ==
    /\ job_pc = "spawned"
    /\ size = 0
    /\ job_pc' = "joined"
    /\ UNCHANGED <<file_bytes, in_buf, out_buf, size, out_buf_capacity, out_size, mode,
                   job_ret, markdup_size, notJob>>

\* mode == MODE_SORT_ONLY (slave.c:616-638)
JobSortOnly ==
    /\ job_pc = "spawned"
    /\ size # 0
    /\ mode = MODE_SORT_ONLY
    /\ out_buf' = SortToOut(in_buf, size)
    /\ out_size' = Len(out_buf')
    /\ job_pc' = "joined"
    /\ UNCHANGED <<file_bytes, in_buf, size, out_buf_capacity, mode, job_ret,
                   markdup_size, notJob>>

\* mode == MODE_MARKDUP_ONLY (slave.c:640-646)
JobMarkdupOnly ==
    /\ job_pc = "spawned"
    /\ size # 0
    /\ mode = MODE_MARKDUP_ONLY
    /\ \E m \in markdup_core(in_buf, size, Capacity) :
          /\ out_buf' = m.out
          /\ out_size' = IF m.ret # 0 THEN 0 ELSE m.out_size
          /\ job_ret' = m.ret
    /\ job_pc' = "joined"
    /\ UNCHANGED <<file_bytes, in_buf, size, out_buf_capacity, mode, markdup_size, notJob>>

\* a mutant of MarkdupUsable: every result of a successful call is taken
MarkdupUsable_AnySize(ret, md_size, cap) == ret = 0

\* if (ret == 0 && markdup_size > 0 && markdup_size <= out_buf_capacity)  (slave.c:678)
MarkdupUsable(ret, md_size, cap) == ret = 0 /\ md_size > 0 /\ md_size <= cap

\* mode == MODE_ALL (slave.c:648-685)
JobAll ==
    /\ job_pc = "spawned"
    /\ size # 0
    /\ mode = MODE_ALL
    /\ \E sorted \in {SortToOut(in_buf, size)} :
          \E m \in markdup_core(sorted, Len(sorted), Capacity) :
             /\ in_buf' = Overwrite(in_buf, m.out)
             /\ job_ret' = m.ret
             /\ markdup_size' = m.out_size
             /\ IF MarkdupUsable(m.ret, m.out_size, Capacity)
                THEN out_buf' = Overwrite(sorted, m.out) /\ out_size' = m.out_size
                ELSE out_buf' = sorted /\ out_size' = Len(sorted)
    /\ job_pc' = "joined"
    /\ UNCHANGED <<file_bytes, size, out_buf_capacity, mode, notJob>>

\* a second sort-only job whose input is the output of the first: the host
\* reads the file it wrote (main.c:424-431, 185-192) and the worker sorts it
\* (slave.c:616-638)
JobResort ==
    /\ job_pc = "joined"
    /\ mode = MODE_SORT_ONLY
    /\ size # 0 /\ out_size # 0
    /\ in_buf' = SubSeq(out_buf, 1, out_size)
    /\ size' = out_size
    /\ out_buf_capacity' = (out_size * 105) \div 100
    /\ out_buf' = SortToOut(in_buf', size')
    /\ out_size' = Len(out_buf')
    /\ job_pc' = "resorted"
    /\ UNCHANGED <<file_bytes, mode, job_ret, markdup_size, notJob>>

(***************************************************************************)
(* The jobs explored: SAM files of up to MaxLines lines, as process_batch  *)
(* (src/src/main.c:161-198) hands them to a worker.                        *)
(***************************************************************************)
\* the bytes of the text of a decimal digit string, e.g. Digits(<<0, 1>>) is "01"
Digits(ds) == [i \in 1..Len(ds) |-> CH_0 + ds[i]]

\* fields joined by TAB
RECURSIVE JoinTab(_)
JoinTab(fields) ==
    IF Len(fields) = 1 THEN fields[1]
    ELSE fields[1] \o <<TAB>> \o JoinTab(Tail(fields))

\* an alignment line of eleven fields: QNAME FLAG RNAME POS MAPQ CIGAR RNEXT
\* PNEXT TLEN SEQ QUAL
SamLine(qname, flag, rname, pos, pnext, qual) ==
    JoinTab(<<qname, flag, rname, pos, <<CH_0>>, <<CH_STAR>>, <<CH_EQ>>, pnext,
              <<CH_0>>, <<CH_STAR>>, qual>>)

\* the kinds of line a file is made of; the QNAME of the k-th line is the
\* k-th letter, so the lines of a file are distinct
JobLineKinds == {"b5_9", "b5_3", "a7_01", "b5_sec", "hdr", "short", "cut"}

JobLine(kind, k) ==
    LET q == <<96 + k>>     \* "a", "b", ...
        rA == <<65>>        \* "A"
        rB == <<66>>        \* "B"
    IN  CASE kind = "b5_9" -> SamLine(q, Digits(<<0>>), rB, Digits(<<5>>), Digits(<<9>>), <<CH_PLUS>>)
          [] kind = "b5_3" -> SamLine(q, Digits(<<0>>), rB, Digits(<<5>>), Digits(<<3>>), <<CH_PLUS, CH_PLUS>>)
          [] kind = "a7_01" -> SamLine(q, Digits(<<0, 1>>), rA, Digits(<<7>>), Digits(<<9>>), <<CH_PLUS>>)
          [] kind = "b5_sec" -> SamLine(q, Digits(<<2, 5, 6>>), rB, Digits(<<5>>), Digits(<<9>>), <<CH_PLUS, CH_PLUS>>)
          [] kind = "hdr" -> <<CH_AT, 72, 68>>     \* "@HD"
          [] kind = "short" -> JoinTab(<<q, Digits(<<0>>)>>)
          [] kind = "cut" -> JoinTab(<<q, Digits(<<0>>), rB>>)   \* cut off behind RNAME

\* the lines of a file joined by '\n'; the last line ends in '\n' iff closed
RECURSIVE JoinLines(_, _)
JoinLines(ls, closed) ==
    IF ls = <<>> THEN <<>>
    ELSE IF Len(ls) = 1 THEN (IF closed THEN ls[1] \o <<NL>> ELSE ls[1])
    ELSE ls[1] \o <<NL>> \o JoinLines(Tail(ls), closed)

JobLines(kinds) == [k \in 1..Len(kinds) |-> JobLine(kinds[k], k)]

JobFiles ==
    {JoinLines(JobLines(kinds), closed) :
        kinds \in SeqsUpTo(JobLineKinds, MaxLines), closed \in BOOLEAN}

\* out_sizes[] of process_batch is not initialised (main.c:174)
StaleSizes == {0, 77}

JobInit ==
    /\ file_bytes \in JobFiles
    /\ in_buf = file_bytes
    /\ out_buf = <<>>
    /\ size = Len(file_bytes)
    /\ out_buf_capacity = (size * 105) \div 100
    /\ out_size \in StaleSizes
    /\ mode \in {MODE_SORT_ONLY, MODE_MARKDUP_ONLY, MODE_ALL}
    /\ job_pc = "spawned"
    /\ job_ret = 0 /\ markdup_size = 0
    /\ MdOff /\ ArOff /\ SfOff /\ PbOff /\ ScOff /\ PsOff /\ StOff /\ NmOff /\ RlOff /\ WrOff /\ RfOff /\ SwOff

JobNext == JobEmpty \/ JobSortOnly \/ JobMarkdupOnly \/ JobAll \/ JobResort

SpecJob == JobInit /\ [][JobNext]_vars

(***************************************************************************)
(* Claims about a worker job.  The lines of a buffer are read here         *)
(* directly from its bytes, without the parsers of the program.            *)
(***************************************************************************)
\* the indices just past each line of buf: every '\n', and the end of an
\* unterminated last line
LineStops(buf) ==
    {i \in 1..Len(buf) : buf[i] = NL}
        \cup (IF buf # <<>> /\ buf[Len(buf)] # NL THEN {Len(buf) + 1} ELSE {})

\* buf split at newline characters (the newline is not part of a line)
TextLines(buf) ==
    LET stops == LineStops(buf)
        Stop(k) == CHOOSE e \in stops : Cardinality({x \in stops : x <= e}) = k
    IN  [k \in 1..Cardinality(stops) |->
            SubSeq(buf, IF k = 1 THEN 1 ELSE Stop(k - 1) + 1, Stop(k) - 1)]

\* the index of the n-th TAB of a line, or one past its end
TabAt(line, n) ==
    LET tabs == {i \in 1..Len(line) : line[i] = TAB} IN
    IF Cardinality(tabs) < n THEN Len(line) + 1
    ELSE CHOOSE t \in tabs : Cardinality({x \in tabs : x <= t}) = n

QName(line) == SubSeq(line, 1, TabAt(line, 1) - 1)

FlagText(line) == SubSeq(line, TabAt(line, 1) + 1, TabAt(line, 2) - 1)

IsHeaderLine(line) == line # <<>> /\ line[1] = CH_AT

\* an alignment line: not a header, at least eleven fields
IsRecordLine(line) ==
    ~IsHeaderLine(line) /\ Cardinality({i \in 1..Len(line) : line[i] = TAB}) >= 10

\* the value of a text of decimal digits
RECURSIVE DecValue(_)
DecValue(text) ==
    IF text = <<>> THEN 0
    ELSE 10 * DecValue(SubSeq(text, 1, Len(text) - 1)) + (text[Len(text)] - CH_0)

\* line with its flag field replaced by text
WithFlag(line, text) ==
    SubSeq(line, 1, TabAt(line, 1)) \o text \o SubSeq(line, TabAt(line, 2), Len(line))

OutBytes == SubSeq(out_buf, 1, out_size)

InputRecordLines == SelectSeq(TextLines(file_bytes), IsRecordLine)

OutputRecordLines == SelectSeq(TextLines(OutBytes), LAMBDA l : ~IsHeaderLine(l))

\* a job of duplicate marking has run and succeeded
MarkdupDone ==
    job_pc = "joined" /\ size > 0 /\ mode = MODE_MARKDUP_ONLY /\ out_size > 0

\* C4: the output of duplicate marking lists the header lines first and then
\* every parsed record in the order the records have in the input buffer.
C4_OutputInInputOrder ==
    MarkdupDone =>
        /\ Len(OutputRecordLines) = Len(InputRecordLines)
        /\ \A i \in 1..Len(OutputRecordLines) :
              QName(OutputRecordLines[i]) = QName(InputRecordLines[i])

\* C5: every record line written by duplicate marking is the input line of
\* the same QNAME, byte for byte, or that line with its flag field replaced
\* by the decimal text of (flag OR 1024).
C5_OnlyFlagOfMarkedChanges ==
    MarkdupDone =>
        \A o \in Range(OutputRecordLines) :
            \E l \in Range(InputRecordLines) :
                /\ QName(l) = QName(o)
                /\ \/ o = l
                   \/ LET f == DecValue(FlagText(l))
                      IN  o = WithFlag(l, Dec(IF HasBit(f, BAM_FDUP) THEN f ELSE f + BAM_FDUP))

\* C9: in sort-only mode the output, split at newlines, is the input lines
\* rearranged into the strict order of cmp_line.
C9_SortOnlyIsOrderedPermutation ==
    (job_pc = "joined" /\ size > 0 /\ mode = MODE_SORT_ONLY) =>
        LET ins == TextLines(file_bytes)
            info == parse_sam_lines(file_bytes, size)
            outs == TextLines(OutBytes)
        IN  \E p \in Injective(Len(ins)) :
              /\ \A i \in 1..(Len(ins) - 1) : cmp_line(info[p[i]], info[p[i + 1]]) < 0
              /\ outs = [i \in 1..Len(ins) |-> ins[p[i]]]

\* C10: in MODE_ALL the records of the final output keep the order the sort
\* gave them: duplicate marking of the sorted buffer does not reorder them.
C10_AllKeepsSortOrder ==
    (job_pc = "joined" /\ size > 0 /\ mode = MODE_ALL) =>
        LET sorted == SelectSeq(TextLines(SortToOut(file_bytes, size)),
                                  LAMBDA l : ~IsHeaderLine(l))
            Place(q) == CHOOSE k \in 1..Len(sorted) : QName(sorted[k]) = q
            outs == OutputRecordLines
        IN  \A i, j \in 1..Len(outs) :
              i < j => Place(QName(outs[i])) < Place(QName(outs[j]))

(***************************************************************************)
(* auto_region on the bytes of a SAM file,                                 *)
(* src/pre-tools/auto_region.cpp:188-370 and 480-611.                      *)
(***************************************************************************)
TARGET_REGION_MB == 64
CH_UNDERSCORE == 95

\* the field loop of parse_sam_rname_pos (auto_region.cpp:207-223) on the
\* text of a line; -1 stands for a null pointer
RECURSIVE ArFieldLoop(_, _, _, _, _, _)
ArFieldLoop(line, i, field, start, rname_s, rname_l) ==
    IF i > Len(line)
    THEN [rname_s |-> rname_s, rname_l |-> rname_l, pos_s |-> -1, pos_l |-> 0]
    ELSE IF (IF i = Len(line) THEN TAB ELSE At(line, i)) = TAB
    THEN IF field = 3
         THEN [rname_s |-> rname_s, rname_l |-> rname_l,
               pos_s |-> start, pos_l |-> i - start]
         ELSE IF field = 2
         THEN ArFieldLoop(line, i + 1, field + 1, i + 1, start, i - start)
         ELSE ArFieldLoop(line, i + 1, field + 1, i + 1, rname_s, rname_l)
    ELSE ArFieldLoop(line, i + 1, field, start, rname_s, rname_l)

\* the digit loop of parse_sam_rname_pos (auto_region.cpp:235-239)
RECURSIVE ArDigitLoop(_, _, _)
ArDigitLoop(text, idx, value) ==
    IF idx >= Len(text) THEN [ok |-> TRUE, value |-> value]
    ELSE IF At(text, idx) < CH_0 \/ At(text, idx) > CH_9
    THEN [ok |-> FALSE, value |-> 0]
    ELSE ArDigitLoop(text, idx + 1, value * 10 + (At(text, idx) - CH_0))

\* parse_sam_rname_pos (auto_region.cpp:188-246)
parse_sam_rname_pos(line) ==
    LET no == [ok |-> FALSE, rname |-> <<>>, pos |-> 0] IN
    IF Len(line) = 0 THEN no
    ELSE IF At(line, 0) = CH_AT THEN no
    ELSE LET f == ArFieldLoop(line, 0, 0, 0, -1, 0) IN
         IF f.rname_s = -1 \/ f.pos_s = -1 \/ f.pos_l <= 0 THEN no
         ELSE LET text == Slice(line, f.pos_s, f.pos_l)
                  neg == At(text, 0) = CH_MINUS
              IN  IF neg /\ 1 >= f.pos_l THEN no
                  ELSE LET d == ArDigitLoop(text, IF neg THEN 1 ELSE 0, 0) IN
                       IF ~d.ok THEN no
                       ELSE [ok |-> TRUE, rname |-> Slice(line, f.rname_s, f.rname_l),
                             pos |-> IF neg THEN -d.value ELSE d.value]

\* chr_index.find(rname) (auto_region.cpp:335): the index of the chromosome
\* in chrs, counted from 1; 0 when it is not a kept chromosome
ChrIndex(cs, rname) ==
    IF \E i \in 1..Len(cs) : cs[i].name = rname
    THEN CHOOSE i \in 1..Len(cs) : cs[i].name = rname
    ELSE 0

\* one line of the loop of load_and_parse_sam (auto_region.cpp:316-362);
\* st holds chrs, header_lines and records
LoadLine(buf, line_start, line_len, text_len, st) ==
    IF At(buf, line_start) = CH_AT
    THEN [st EXCEPT !.header_lines = Append(@, Slice(buf, line_start, line_len))]
    ELSE LET p == parse_sam_rname_pos(Slice(buf, line_start, text_len))
             chr_id == ChrIndex(st.chrs, p.rname)
         IN  IF ~p.ok \/ chr_id = 0 THEN st
             ELSE LET c == st.chrs[chr_id]
                      bin0 == (p.pos - 1) \div BIN_SIZE
                      bin_idx == IF bin0 >= c.num_bins THEN c.num_bins - 1 ELSE bin0
                  IN  IF p.pos <= 0 \/ p.pos > c.length THEN st
                      ELSE [st EXCEPT
                              !.chrs[chr_id].bin_weight =
                                  IF c.num_bins > 0
                                  THEN [@ EXCEPT ![bin_idx + 1] = @ + line_len] ELSE @,
                              !.records = Append(@, [chr_id |-> chr_id, pos |-> p.pos,
                                                     offset |-> line_start, len |-> line_len])]

\* the loop of load_and_parse_sam (auto_region.cpp:307-363)
RECURSIVE LoadLoop(_, _, _, _)
LoadLoop(buf, sz, i, st) ==
    IF i >= sz THEN st
    ELSE LET line_end == LineEnd(buf, sz, i)
             next == IF line_end < sz THEN line_end + 1 ELSE line_end
         IN  Let(LoadLine(buf, i, next - i, line_end - i, st),
                 LAMBDA s2 : LoadLoop(buf, sz, next, s2))

\* load_and_parse_sam (auto_region.cpp:256-370); an empty file makes main
\* return 1
LoadAndParseSam ==
    /\ ar_pc = "fasta"
    /\ IF Len(sam_buf) <= 0
       THEN ar_pc' = "exit1" /\ UNCHANGED <<chrs, header_lines, records>>
       ELSE \E st \in {LoadLoop(sam_buf, Len(sam_buf), 0,
                          [chrs |-> chrs, header_lines |-> <<>>, records |-> <<>>])} :
              /\ chrs' = st.chrs
              /\ header_lines' = st.header_lines
              /\ records' = st.records
              /\ ar_pc' = "loaded"
    /\ UNCHANGED <<target_bytes, sam_buf, files, notAr>>

\* build_chr_record_indices (auto_region.cpp:480-497): for each chromosome
\* the indices into records, in increasing order
build_chr_record_indices(recs, n_chr) ==
    [c \in 1..n_chr |->
        SelectSeq([i \in 1..Len(recs) |-> i], LAMBDA i : recs[i].chr_id = c)]

\* a mutant of ArFindLoop: a position equal to the end of a region is
\* searched to the right of the region
RECURSIVE ArFindLoop_EndExcluded(_, _, _, _)
ArFindLoop_EndExcluded(regions, pos, left, right) ==
    IF left > right THEN -1
    ELSE LET mid == (left + right) \div 2
             rg == regions[mid + 1]
         IN  IF pos < rg.start THEN ArFindLoop_EndExcluded(regions, pos, left, mid - 1)
             ELSE IF pos >= rg.end THEN ArFindLoop_EndExcluded(regions, pos, mid + 1, right)
             ELSE mid

\* the binary search of split_sam_by_regions_from_memory
\* (auto_region.cpp:538-553); left, right and the result count from 0
RECURSIVE ArFindLoop(_, _, _, _)
ArFindLoop(regions, pos, left, right) ==
    IF left > right THEN -1
    ELSE LET mid == (left + right) \div 2
             rg == regions[mid + 1]
         IN  IF pos < rg.start THEN ArFindLoop(regions, pos, left, mid - 1)
             ELSE IF pos > rg.end THEN ArFindLoop(regions, pos, mid + 1, right)
             ELSE mid

\* reg_rec_ids[r_idx] after the bucket loop (auto_region.cpp:530-559)
RegRecIds(c, idx_list, recs, r_idx) ==
    SelectSeq(idx_list,
              LAMBDA id : /\ ~(recs[id].pos <= 0 \/ recs[id].pos > c.length)
                          /\ ArFindLoop(c.regions, recs[id].pos, 0, Len(c.regions) - 1) = r_idx)

\* "%s_%ld_%ld.sam" (auto_region.cpp:571-574), without the directory
RegionPath(c, rg) ==
    c.name \o <<CH_UNDERSCORE>> \o Dec(rg.start) \o <<CH_UNDERSCORE>> \o Dec(rg.end)
        \o <<46, 115, 97, 109>>

RECURSIVE Flatten(_)
Flatten(ss) == IF ss = <<>> THEN <<>> ELSE Head(ss) \o Flatten(Tail(ss))

\* the fwrite calls on one region file, in order (auto_region.cpp:590-600):
\* the bytes of each header line, then the bytes of each record
RegionFileWrites(buf, hdrs, recs, rec_ids) ==
    hdrs \o [t \in 1..Len(rec_ids) |->
                Slice(buf, recs[rec_ids[t]].offset, recs[rec_ids[t]].len)]

\* the content of a file that was written by the calls ws
FileBytes(ws) == Flatten(ws)

\* the files split_sam_by_regions_from_memory writes (auto_region.cpp:517-608),
\* every fopen succeeding: a file for each region that has records
RegionFiles(buf, cs, hdrs, recs, chr_rec_indices) ==
    LET Ids(chr_id, r_idx) ==
            RegRecIds(cs[chr_id], chr_rec_indices[chr_id], recs, r_idx)
        written == UNION {{<<chr_id, r_idx>> :
                              r_idx \in {r \in 0..(Len(cs[chr_id].regions) - 1) :
                                            Ids(chr_id, r) # <<>>}} :
                          chr_id \in 1..Len(cs)}
    IN  {[path |-> RegionPath(cs[w[1]], cs[w[1]].regions[w[2] + 1]),
          writes |-> RegionFileWrites(buf, hdrs, recs, Ids(w[1], w[2]))] : w \in written}

\* main, auto_region.cpp:789-798: the split of the file into region files
SplitSam ==
    /\ ar_pc = "regions"
    /\ \E written \in {RegionFiles(sam_buf, chrs, header_lines, records,
                                   build_chr_record_indices(records, Len(chrs)))} :
          files' = [p \in {w.path : w \in written} |->
                      (CHOOSE w \in written : w.path = p).writes]
    /\ ar_pc' = "done"
    /\ UNCHANGED <<chrs, target_bytes, sam_buf, header_lines, records, notAr>>

(***************************************************************************)
(* auto_region on SAM files of up to MaxSamLines lines.                    *)
(***************************************************************************)
NAME_chrM == <<99, 104, 114, 77>>

\* the chromosomes parse_fasta kept (auto_region.cpp:90-185): chr1 of three
\* bins, the last one short, and chr2 of one bin
ArChrs ==
    <<ChrInfo(NAME_chr1, 2 * BIN_SIZE + 500, [b \in 1..3 |-> 0]),
      ChrInfo(NAME_chr2, BIN_SIZE, [b \in 1..1 |-> 0])>>

\* main fixes target_bytes to TARGET_REGION_MB MB (auto_region.cpp:773); the
\* small targets let the few lines of a file fill a region
ArTargets == {12, TARGET_REGION_MB * 1024 * 1024}

ArLineKinds ==
    {"c1_1000", "c1_1001", "c1_2500", "c1_2501", "c2_5", "cM_5", "hdr"}

\* the k-th line of a file: QNAME is the k-th letter, FLAG is 0
ArLine(kind, k) ==
    LET q == <<96 + k>>
        L(rname, pos) == JoinTab(<<q, <<CH_0>>, rname, pos>>)
    IN  CASE kind = "c1_1000" -> L(NAME_chr1, Digits(<<1, 0, 0, 0>>))
          [] kind = "c1_1001" -> L(NAME_chr1, Digits(<<1, 0, 0, 1>>)) \o <<TAB, CH_STAR>>
          [] kind = "c1_2500" -> L(NAME_chr1, Digits(<<2, 5, 0, 0>>))
          [] kind = "c1_2501" -> L(NAME_chr1, Digits(<<2, 5, 0, 1>>))
          [] kind = "c2_5" -> L(NAME_chr2, Digits(<<5>>))
          [] kind = "cM_5" -> L(NAME_chrM, Digits(<<5>>))
          [] kind = "hdr" -> <<CH_AT, 72, 68>>

ArSamFiles ==
    {JoinLines([k \in 1..Len(kinds) |-> ArLine(kinds[k], k)], closed) :
        kinds \in SeqsUpTo(ArLineKinds, MaxSamLines), closed \in BOOLEAN}

ArInit ==
    /\ chrs = ArChrs
    /\ target_bytes \in ArTargets
    /\ sam_buf \in ArSamFiles
    /\ header_lines = <<>> /\ records = <<>> /\ files = <<>>
    /\ ar_pc = "fasta"
    /\ MdOff /\ SfOff /\ JobOff /\ PbOff /\ ScOff /\ PsOff /\ StOff /\ NmOff /\ RlOff /\ WrOff /\ RfOff /\ SwOff

ArNext == LoadAndParseSam \/ BuildRegions \/ SplitSam

SpecAutoRegion == ArInit /\ [][ArNext]_vars

(***************************************************************************)
(* Claims about auto_region.  Lines and fields are read here directly from *)
(* the bytes, without the parser of the program.                           *)
(***************************************************************************)
RNameField(line) == SubSeq(line, TabAt(line, 2) + 1, TabAt(line, 3) - 1)

PosField(line) == SubSeq(line, TabAt(line, 3) + 1, TabAt(line, 4) - 1)

IsDecimal(text) ==
    text # <<>> /\ \A i \in 1..Len(text) : text[i] >= CH_0 /\ text[i] <= CH_9

\* an alignment line on a kept chromosome with a position in [1, length]
Qualifies(line) ==
    /\ ~IsHeaderLine(line)
    /\ TabAt(line, 3) <= Len(line)
    /\ IsDecimal(PosField(line))
    /\ \E c \in 1..Len(chrs) :
          /\ chrs[c].name = RNameField(line)
          /\ DecValue(PosField(line)) >= 1
          /\ DecValue(PosField(line)) <= chrs[c].length

\* the lines of buf with their newline characters
SpanLines(buf) ==
    LET stops == LineStops(buf)
        Stop(k) == CHOOSE e \in stops : Cardinality({x \in stops : x <= e}) = k
    IN  [k \in 1..Cardinality(stops) |->
            SubSeq(buf, IF k = 1 THEN 1 ELSE Stop(k - 1) + 1, Min(Stop(k), Len(buf)))]

\* a line without its newline character
Chomp(span) ==
    IF span # <<>> /\ span[Len(span)] = NL THEN SubSeq(span, 1, Len(span) - 1) ELSE span

\* the writes (file, call number) of the region files that wrote the line
Occurrences(span) ==
    UNION {{<<p, k>> : k \in {j \in 1..Len(files[p]) : files[p][j] = span}} :
           p \in DOMAIN files}

InputIndex(span) ==
    CHOOSE i \in 1..Len(SpanLines(sam_buf)) : SpanLines(sam_buf)[i] = span

\* the records written to a region file, in the order of the writes
FileRecords(p) == SelectSeq(files[p], LAMBDA w : ~IsHeaderLine(w))

BATCH_SIZE == 64
MaxJobs == 2
MaxFiles == 130
ScenarioFiles == 70

\* malloc returns a fresh block for every buffer: the blocks of entry f
NULL == 0
InPtr(f) == 2 * f - 1
OutPtr(f) == 2 * f

\* (unsigned long)((double)fsize * 1.05)
BufSize(fsize) == (fsize * 105) \div 100

\* one worker job as a function of its parameter block (slave.c:609-685):
\* the buffers and the value stored through para->out_size afterwards
sam_process_cpe(ib, ob, sz, cap0, md) ==
    LET cap == IF cap0 = 0 THEN sz ELSE cap0
    IN  IF md = MODE_SORT_ONLY
        THEN Let(SortToOut(ib, sz), LAMBDA sorted :
                 {[in_buf |-> ib, out_buf |-> Overwrite(ob, sorted), out_size |-> Len(sorted)]})
        ELSE IF md = MODE_MARKDUP_ONLY
        THEN {[in_buf |-> ib, out_buf |-> Overwrite(ob, m.out),
               out_size |-> IF m.ret # 0 THEN 0 ELSE m.out_size]
              : m \in markdup_core(ib, sz, cap)}
        ELSE Let(SortToOut(ib, sz), LAMBDA sorted :
                 {IF m.ret = 0 /\ m.out_size > 0 /\ m.out_size <= cap
                  THEN [in_buf |-> Overwrite(ib, m.out),
                        out_buf |-> Overwrite(Overwrite(ob, sorted), m.out),
                        out_size |-> m.out_size]
                  ELSE [in_buf |-> Overwrite(ib, m.out),
                        out_buf |-> Overwrite(ob, sorted),
                        out_size |-> Len(sorted)]
                  : m \in markdup_core(sorted, Len(sorted), cap)})

\* int id = _PEN (slave.c:597): CPE w works on paras[w]
PEN_First(w) == 1
PEN(w) == w

\* if (!in_buf || !out_buf || size == 0) return;  (slave.c:606-608)
IsNoop(para) == para.in_buf = NULL \/ para.out_buf = NULL \/ para.size = 0

\* the heap, the out_sizes array and the access sets after CPE w has run
CpeStep(w, paras, st) ==
    LET para == paras[PEN(w)]
    IN  IF IsNoop(para) THEN {st}
        ELSE {[mem |-> [st.mem EXCEPT ![para.in_buf] = o.in_buf, ![para.out_buf] = o.out_buf],
               out_sizes |-> [st.out_sizes EXCEPT ![para.out_size] = o.out_size],
               acc |-> [st.acc EXCEPT ![w] = {<<"buf", para.in_buf>>, <<"buf", para.out_buf>>,
                                               <<"slot", para.out_size>>}]]
              : o \in sam_process_cpe(st.mem[para.in_buf], st.mem[para.out_buf],
                                      para.size, para.out_buf_capacity, para.mode)}

\* CPEs lo..hi run one after the other
RECURSIVE RunCpes(_, _, _, _)
RunCpes(lo, hi, paras, st) ==
    IF lo = hi THEN CpeStep(lo, paras, st)
    ELSE UNION {RunCpes((lo + hi) \div 2 + 1, hi, paras, s2)
                : s2 \in RunCpes(lo, (lo + hi) \div 2, paras, st)}

\* the readdir loop of main up to the next call of process_batch (main.c:384-463)
RECURSIVE ReadLoop_ShortBatch(_, _, _)
ReadLoop_ShortBatch(dir, next, batch) ==
    IF next > Len(dir) THEN [next |-> next, batch |-> batch]
    ELSE IF ~dir[next].ok THEN ReadLoop_ShortBatch(dir, next + 1, batch)
    ELSE IF Len(batch) + 2 = BATCH_SIZE
         THEN [next |-> next + 1, batch |-> Append(batch, next)]
         ELSE ReadLoop_ShortBatch(dir, next + 1, Append(batch, next))

RECURSIVE ReadLoop(_, _, _)
ReadLoop(dir, next, batch) ==
    IF next > Len(dir) THEN [next |-> next, batch |-> batch]
    ELSE IF ~dir[next].ok THEN ReadLoop(dir, next + 1, batch)
    ELSE IF Len(batch) + 1 = BATCH_SIZE
         THEN [next |-> next + 1, batch |-> Append(batch, next)]
         ELSE ReadLoop(dir, next + 1, Append(batch, next))

\* main.c:384-470 and 484-492: read files until the batch is full or the
\* directory is exhausted, then call process_batch (or finish)
MainReadBatch ==
    /\ pb_pc = "reading"
    /\ \E r \in {ReadLoop(pb_dir, pb_next, <<>>)} :
          /\ pb_next' = r.next
          /\ pb_batch' = r.batch
          /\ pb_sizes' = [i \in 1..Len(r.batch) |-> Len(pb_dir[r.batch[i]].bytes)]
          /\ pb_in_bufs' = [i \in 1..Len(r.batch) |->
                              IF Len(pb_dir[r.batch[i]].bytes) > 0 THEN InPtr(r.batch[i]) ELSE NULL]
          /\ pb_out_bufs' = [i \in 1..Len(r.batch) |->
                              IF Len(pb_dir[r.batch[i]].bytes) > 0 THEN OutPtr(r.batch[i]) ELSE NULL]
          /\ pb_mem' = [q \in DOMAIN pb_mem |->
                          IF \E i \in 1..Len(r.batch) :
                                q = InPtr(r.batch[i]) /\ Len(pb_dir[r.batch[i]].bytes) > 0
                          THEN pb_dir[(q + 1) \div 2].bytes
                          ELSE pb_mem[q]]
          /\ pb_alloc' = pb_alloc \cup
                {q \in DOMAIN pb_mem : \E i \in 1..Len(r.batch) :
                    /\ Len(pb_dir[r.batch[i]].bytes) > 0
                    /\ q \in {InPtr(r.batch[i]), OutPtr(r.batch[i])}}
          /\ IF Len(r.batch) = BATCH_SIZE
             THEN pb_pc' = "entry" /\ pb_caller' = "loop"
                  /\ pb_batches' = Append(pb_batches, r.batch)
             ELSE IF Len(r.batch) > 0
             THEN pb_pc' = "entry" /\ pb_caller' = "final"
                  /\ pb_batches' = Append(pb_batches, r.batch)
             ELSE pb_pc' = "exit" /\ pb_caller' = "none" /\ pb_batches' = pb_batches
    /\ UNCHANGED <<pb_mode, pb_dir, pb_written, pb_unwritable, pb_paras, pb_out_sizes,
                   pb_cpe, pb_acc, pb_i, pb_outfiles, pb_failed, pb_success, notPb>>

\* process_batch, main.c:173-198: paras[] is filled and the CPEs are spawned;
\* out_sizes[] is a local array that is not initialised
PbSpawn ==
    /\ pb_pc = "entry"
    /\ \E g \in StaleSizes : pb_out_sizes' = [k \in 1..BATCH_SIZE |-> g]
    /\ pb_paras' = [k \in 1..BATCH_SIZE |->
                      IF k <= Len(pb_batch)
                      THEN [in_buf |-> pb_in_bufs[k], out_buf |-> pb_out_bufs[k],
                            size |-> pb_sizes[k],
                            out_buf_capacity |-> BufSize(pb_sizes[k]),
                            out_size |-> k, mode |-> pb_mode]
                      ELSE [in_buf |-> NULL, out_buf |-> NULL, size |-> 0,
                            out_buf_capacity |-> 0, out_size |-> k, mode |-> 0]]
    /\ pb_cpe' = [w \in 1..BATCH_SIZE |-> "idle"]
    /\ pb_acc' = [w \in 1..BATCH_SIZE |-> {}]
    /\ pb_pc' = "spawned"
    /\ UNCHANGED <<pb_mode, pb_dir, pb_next, pb_caller, pb_batch, pb_batches, pb_written,
                   pb_unwritable, pb_in_bufs, pb_out_bufs, pb_sizes, pb_mem, pb_alloc,
                   pb_i, pb_outfiles, pb_failed, pb_success, notPb>>

CpeUnchanged == <<pb_pc, pb_mode, pb_dir, pb_next, pb_caller, pb_batch, pb_batches,
                  pb_written, pb_unwritable, pb_in_bufs, pb_out_bufs, pb_sizes, pb_paras,
                  pb_alloc, pb_i, pb_outfiles, pb_failed, pb_success, notPb>>

\* sam_process_cpe on CPE w (slave.c:595-686), for a CPE that has work
CpeRun(w) ==
    /\ pb_pc \notin {"off", "reading", "entry", "exit"}
    /\ pb_cpe[w] = "idle"
    /\ ~IsNoop(pb_paras[PEN(w)])
    /\ \E s2 \in CpeStep(w, pb_paras, [mem |-> pb_mem, out_sizes |-> pb_out_sizes, acc |-> pb_acc]) :
          /\ pb_mem' = s2.mem
          /\ pb_out_sizes' = s2.out_sizes
          /\ pb_acc' = s2.acc
    /\ pb_cpe' = [pb_cpe EXCEPT ![w] = "done"]
    /\ UNCHANGED CpeUnchanged

\* sam_process_cpe on the CPEs whose job is empty or unused: each returns at
\* slave.c:607 without touching anything
IdleCpesReturn ==
    /\ pb_pc \notin {"off", "reading", "entry", "exit"}
    /\ {w \in 1..BATCH_SIZE : pb_cpe[w] = "idle" /\ IsNoop(pb_paras[PEN(w)])} # {}
    /\ pb_cpe' = [w \in 1..BATCH_SIZE |->
                    IF IsNoop(pb_paras[PEN(w)]) THEN "done" ELSE pb_cpe[w]]
    /\ UNCHANGED <<pb_mem, pb_out_sizes, pb_acc, CpeUnchanged>>

\* sam_process_cpe on all 64 CPEs, run to completion one after the other
AllCpesRun ==
    /\ pb_pc = "spawned"
    /\ {w \in 1..BATCH_SIZE : pb_cpe[w] = "idle"} # {}
    /\ \E s2 \in RunCpes(1, BATCH_SIZE, pb_paras, [mem |-> pb_mem, out_sizes |-> pb_out_sizes, acc |-> pb_acc]) :
          /\ pb_mem' = s2.mem
          /\ pb_out_sizes' = s2.out_sizes
          /\ pb_acc' = s2.acc
    /\ pb_cpe' = [w \in 1..BATCH_SIZE |-> "done"]
    /\ UNCHANGED CpeUnchanged

\* athread_join() returns when every CPE has returned (main.c:199)
JoinReady_NoWait == TRUE
JoinReady == \A w \in 1..BATCH_SIZE : pb_cpe[w] = "done"

PbJoin ==
    /\ pb_pc = "spawned"
    /\ JoinReady
    /\ pb_pc' = "joined"
    /\ UNCHANGED <<pb_mode, pb_dir, pb_next, pb_caller, pb_batch, pb_batches, pb_written,
                   pb_unwritable, pb_in_bufs, pb_out_bufs, pb_sizes, pb_paras, pb_out_sizes,
                   pb_mem, pb_alloc, pb_cpe, pb_acc, pb_i, pb_outfiles, pb_failed,
                   pb_success, notPb>>

\* main.c:205-223: the input buffers are freed, the write loop starts
PbFreeInputs ==
    /\ pb_pc = "joined"
    /\ pb_alloc' = pb_alloc \ {pb_in_bufs[i] : i \in 1..Len(pb_batch)}
    /\ pb_in_bufs' = [i \in 1..Len(pb_batch) |-> NULL]
    /\ pb_i' = 1 /\ pb_success' = 0 /\ pb_failed' = 0
    /\ pb_pc' = "writing"
    /\ UNCHANGED <<pb_mode, pb_dir, pb_next, pb_caller, pb_batch, pb_batches, pb_written,
                   pb_unwritable, pb_out_bufs, pb_sizes, pb_paras, pb_out_sizes, pb_mem,
                   pb_cpe, pb_acc, pb_outfiles, notPb>>

\* the first n bytes of a block (bytes never stored read as 0)
BufPrefix(b, n) == [k \in 1..n |-> IF k <= Len(b) THEN b[k] ELSE 0]

\* if (out_size > sizes[i] * 2)  (main.c:232)
InvalidOutSize_Never(out_sz, sz) == FALSE
InvalidOutSize(out_sz, sz) == out_sz > sz * 2

\* one iteration of the write loop (main.c:225-277)
PbConsume ==
    /\ pb_pc = "writing"
    /\ pb_i <= Len(pb_batch)
    /\ LET i == pb_i
           f == pb_batch[i]
           out_sz == pb_out_sizes[pb_paras[i].out_size]
       IN  IF InvalidOutSize(out_sz, pb_sizes[i]) \/ out_sz = 0
           THEN /\ pb_failed' = pb_failed + 1
                /\ UNCHANGED <<pb_success, pb_outfiles, pb_written, pb_alloc, pb_out_bufs>>
           ELSE IF f \in pb_unwritable
           THEN /\ pb_failed' = pb_failed + 1
                /\ pb_outfiles' = [pb_outfiles EXCEPT ![f] = [opened |-> "failed", bytes |-> <<>>]]
                /\ UNCHANGED <<pb_success, pb_written, pb_alloc, pb_out_bufs>>
           ELSE /\ pb_outfiles' = [pb_outfiles EXCEPT ![f] =
                        [opened |-> "yes",
                         bytes |-> IF pb_out_bufs[i] = NULL THEN <<>>
                                   ELSE BufPrefix(pb_mem[pb_out_bufs[i]], out_sz)]]
                /\ pb_written' = Append(pb_written, f)
                /\ pb_success' = pb_success + 1
                /\ pb_alloc' = pb_alloc \ {pb_out_bufs[i]}
                /\ pb_out_bufs' = [pb_out_bufs EXCEPT ![i] = NULL]
                /\ UNCHANGED pb_failed
    /\ pb_i' = pb_i + 1
    /\ UNCHANGED <<pb_pc, pb_mode, pb_dir, pb_next, pb_caller, pb_batch, pb_batches,
                   pb_unwritable, pb_in_bufs, pb_sizes, pb_paras, pb_out_sizes, pb_mem,
                   pb_cpe, pb_acc, notPb>>

\* process_batch returns (main.c:279-283) and main clears its arrays
\* (main.c:473-481 after a full batch, 494-501 after the final batch)
PbReturn ==
    /\ pb_pc = "writing"
    /\ pb_i > Len(pb_batch)
    /\ pb_in_bufs' = <<>> /\ pb_out_bufs' = <<>> /\ pb_sizes' = <<>>
    /\ pb_batch' = <<>>
    /\ pb_pc' = IF pb_caller = "loop" THEN "reading" ELSE "exit"
    /\ pb_caller' = "none"
    /\ UNCHANGED <<pb_mode, pb_dir, pb_next, pb_batches, pb_written, pb_unwritable,
                   pb_paras, pb_out_sizes, pb_mem, pb_alloc, pb_cpe, pb_acc, pb_i,
                   pb_outfiles, pb_failed, pb_success, notPb>>

(***************************************************************************)
(* The directories explored.                                               *)
(***************************************************************************)
\* a directory entry main reads, and one it skips (a name starting with '.',
\* a failing stat/fopen/malloc/fread, a file above MAX_BUF_SIZE)
FileEntry(bytes) == [ok |-> TRUE, bytes |-> bytes]
SkippedEntry == [ok |-> FALSE, bytes |-> <<>>]

PbStart(dir, md, unw) ==
    /\ pb_pc = "reading" /\ pb_mode = md /\ pb_dir = dir /\ pb_next = 1
    /\ pb_caller = "none" /\ pb_batch = <<>> /\ pb_batches = <<>> /\ pb_written = <<>>
    /\ pb_unwritable = unw
    /\ pb_in_bufs = <<>> /\ pb_out_bufs = <<>> /\ pb_sizes = <<>>
    /\ pb_paras = <<>> /\ pb_out_sizes = <<>>
    /\ pb_mem = [q \in 1..(2 * Len(dir)) |-> <<>>]
    /\ pb_alloc = {} /\ pb_cpe = <<>> /\ pb_acc = <<>> /\ pb_i = 0
    /\ pb_outfiles = [f \in 1..Len(dir) |-> [opened |-> "no", bytes |-> <<>>]]
    /\ pb_failed = 0 /\ pb_success = 0

\* the files of the batches whose workers are interleaved: empty, two unsorted
\* records, duplicates that fit the capacity and duplicates that do not
PbFileKinds == {<<>>, <<"b5_9", "a7_01">>, <<"b5_9", "b5_3">>,
                <<"b5_9", "b5_9", "b5_9">>}
PbFile(kinds) == JoinLines([k \in 1..Len(kinds) |-> JobLine(kinds[k], k)], TRUE)
\* up to MaxJobs such files in one batch
PbSmallDirs ==
    {[f \in 1..Len(ks) |-> FileEntry(PbFile(ks[f]))]
     : ks \in UNION {[1..n -> PbFileKinds] : n \in 1..MaxJobs}}
\* BATCH_SIZE - 1 empty files, then two files: one closes the first batch, the
\* other is the final batch
PbBoundaryKinds == {<<>>, <<"b5_9", "a7_01">>}
PbBoundaryDirs ==
    {[f \in 1..(BATCH_SIZE + 1) |->
         IF f < BATCH_SIZE THEN FileEntry(<<>>) ELSE FileEntry(PbFile(ks[f - BATCH_SIZE + 1]))]
     : ks \in [1..2 -> PbBoundaryKinds]}
PbDirs == PbSmallDirs \cup PbBoundaryDirs

BatchInit ==
    /\ \E dir \in PbDirs, md \in {MODE_SORT_ONLY, MODE_MARKDUP_ONLY, MODE_ALL} :
          \E unw \in {{}, {Len(dir)}} : PbStart(dir, md, unw)
    /\ MdOff /\ ArOff /\ SfOff /\ JobOff /\ ScOff /\ PsOff /\ StOff /\ NmOff /\ RlOff /\ WrOff /\ RfOff /\ SwOff

BatchNext ==
    \/ MainReadBatch
    \/ PbSpawn
    \/ \E w \in 1..BATCH_SIZE : CpeRun(w)
    \/ IdleCpesReturn
    \/ PbJoin
    \/ PbFreeInputs
    \/ PbConsume
    \/ PbReturn

SpecBatch == BatchInit /\ [][BatchNext]_vars


(***************************************************************************)
(* Claims about process_batch.                                             *)
(***************************************************************************)
AllCpesDone == \A w \in 1..BATCH_SIZE : pb_cpe[w] = "done"

\* the batch whose process_batch call was the last to return
LastReturnedBatch ==
    IF pb_pc = "entry" THEN pb_batches[Len(pb_batches) - 1] ELSE pb_batches[Len(pb_batches)]

\* C12: the host reads no out_sizes slot and writes no output file of a batch
\* before every CPE of that batch has returned (spawn, join, consume), and the
\* next batch is read and spawned only after the write loop of the previous
\* one has run to its end.
C12_ConsumeAfterJoinBeforeNextSpawn ==
    /\ pb_pc \in {"joined", "writing"} => AllCpesDone
    /\ pb_pc = "spawned" =>
          \A i \in 1..Len(pb_batch) : pb_outfiles[pb_batch[i]].opened = "no"
    /\ (pb_pc \in {"reading", "entry", "exit"} /\ pb_cpe # <<>>) =>
          AllCpesDone /\ pb_i = Len(LastReturnedBatch) + 1

\* the second batch is being written after the first one was
C12_Witness ==
    /\ pb_pc = "writing" /\ Len(pb_batches) = 2
    /\ pb_written = <<BATCH_SIZE, BATCH_SIZE + 1>>


\* the buffers and the out_sizes slot of job w of the running batch
JobResources(w) ==
    IF w > Len(pb_batch) THEN {<<"slot", w>>}
    ELSE {<<"buf", InPtr(pb_batch[w])>>, <<"buf", OutPtr(pb_batch[w])>>, <<"slot", w>>}

C14_EmptyJobReportsZero ==
    pb_pc \in {"joined", "writing"} =>
        \A k \in 1..BATCH_SIZE :
            (k > Len(pb_batch) \/ pb_sizes[k] = 0) => pb_out_sizes[k] = 0


\* the jobs of the running batch the write loop has already handled
Consumed == IF pb_pc = "writing" THEN 1..(pb_i - 1) ELSE {}

MarkdupInput(i) ==
    IF pb_mode = MODE_ALL
    THEN SortToOut(pb_dir[pb_batch[i]].bytes, pb_sizes[i])
    ELSE pb_dir[pb_batch[i]].bytes

\* duplicate marking of job i does not fit the capacity of its buffers
CapacityExceeded(i) ==
    /\ pb_sizes[i] > 0
    /\ pb_mode \in {MODE_MARKDUP_ONLY, MODE_ALL}
    /\ \A m \in markdup_core(MarkdupInput(i), Len(MarkdupInput(i)), BufSize(pb_sizes[i])) :
          m.ret < 0

\* C16: a job whose duplicate marking exceeds its output capacity reports a
\* zero-length result and gets no output file, in MODE_MARKDUP_ONLY and in
\* MODE_ALL, and the write loop goes on with the jobs after it.
C16_CapacityFailureWritesNothing ==
    pb_pc \in {"joined", "writing"} =>
        \A i \in 1..Len(pb_batch) :
            CapacityExceeded(i) =>
               /\ pb_out_sizes[i] = 0
               /\ pb_outfiles[pb_batch[i]].opened = "no"

\* the same for MODE_MARKDUP_ONLY alone
C16_MarkdupOnlyHolds ==
    (pb_pc \in {"joined", "writing"} /\ pb_mode = MODE_MARKDUP_ONLY) =>
        \A i \in 1..Len(pb_batch) :
            CapacityExceeded(i) =>
               /\ pb_out_sizes[i] = 0
               /\ pb_outfiles[pb_batch[i]].opened = "no"


\* C17: when process_batch has returned, no input or output buffer allocated
\* for a job of that batch is still allocated, whatever became of the job's
\* output (written, rejected, or its file could not be opened).
C17_AllBuffersReleasedOnReturn ==
    (pb_pc \in {"reading", "exit"} /\ pb_batches # <<>>) => pb_alloc = {}

\* the input buffers alone are all released
C17_InputBuffersReleased ==
    pb_pc \in {"writing", "reading", "exit"} =>
        \A f \in 1..Len(pb_dir) : InPtr(f) \notin pb_alloc


(***************************************************************************)
(* The whole run of main over a directory of up to MaxFiles files; the     *)
(* CPEs of a batch run to completion one after the other.                  *)
(***************************************************************************)
\* file f holds one record whose name is unique in the directory
HostFile(f) == JoinLines(<<JobLine("b5_9", f)>>, TRUE)
HostCounts == {0, 1, BATCH_SIZE - 1, BATCH_SIZE, BATCH_SIZE + 1, ScenarioFiles, MaxFiles}
\* the entry that differs from the others, and how
HostSpecialAt == {1, BATCH_SIZE, BATCH_SIZE + 1}
HostVariants == {"plain", "skipped", "empty", "unwritable"}
HostDir(n, variant, p) ==
    [f \in 1..n |->
        IF f = p /\ variant = "skipped" THEN SkippedEntry
        ELSE IF f = p /\ variant = "empty" THEN FileEntry(<<>>)
        ELSE FileEntry(HostFile(f))]

HostInit ==
    /\ \E n \in HostCounts, md \in {MODE_SORT_ONLY, MODE_MARKDUP_ONLY, MODE_ALL},
          variant \in HostVariants, p \in HostSpecialAt :
          /\ IF variant = "plain" THEN p = 1 ELSE p <= n
          /\ PbStart(HostDir(n, variant, p), md, IF variant = "unwritable" THEN {p} ELSE {})
    /\ MdOff /\ ArOff /\ SfOff /\ JobOff /\ ScOff /\ PsOff /\ StOff /\ NmOff /\ RlOff /\ WrOff /\ RfOff /\ SwOff

HostNext ==
    \/ MainReadBatch
    \/ PbSpawn
    \/ AllCpesRun
    \/ PbJoin
    \/ PbFreeInputs
    \/ PbConsume
    \/ PbReturn

SpecHost == HostInit /\ [][HostNext]_vars

\* the entries main reads successfully, in readdir order
OkEntries == SelectSeq([f \in 1..Len(pb_dir) |-> f], LAMBDA f : pb_dir[f].ok)

\* the batches dispatched so far, one after the other
RECURSIVE Dispatched(_)
Dispatched(k) == IF k > Len(pb_batches) THEN <<>> ELSE pb_batches[k] \o Dispatched(k + 1)

CeilDiv(a, b) == (a + b - 1) \div b
IsPrefix(a, b) == Len(a) <= Len(b) /\ a = SubSeq(b, 1, Len(a))
Increasing(q) == \A i, j \in 1..Len(q) : i < j => q[i] < q[j]

\* the jobs that produce an output file: non-empty input, output path that opens
Writable(f) == Len(pb_dir[f].bytes) > 0 /\ f \notin pb_unwritable

DispatchInBatches ==
    /\ \A k \in 1..Len(pb_batches) :
          /\ Len(pb_batches[k]) \in 1..BATCH_SIZE
          /\ k < Len(pb_batches) => Len(pb_batches[k]) = BATCH_SIZE
    /\ IsPrefix(Dispatched(1), OkEntries)
    /\ pb_pc = "exit" =>
          /\ Len(pb_batches) = CeilDiv(Len(OkEntries), BATCH_SIZE)
          /\ Dispatched(1) = OkEntries

MaxQual == 3
MaxQualLen == 4370

\* len, and qual[i] for 0 <= i < len
RECURSIVE QualLen(_)
QualLen(runs) == IF runs = <<>> THEN 0 ELSE Head(runs).n + QualLen(Tail(runs))
RECURSIVE QualAt(_, _)
QualAt(runs, i) == IF i < Head(runs).n THEN Head(runs).ch ELSE QualAt(Tail(runs), i - Head(runs).n)

\* what one character adds to the score (slave.c:317-319)
QualTerm_NoCap(c) ==
    LET q == c - PHRED_BASE IN IF q > 0 THEN q ELSE 0
QualTerm(c) ==
    LET q0 == c - PHRED_BASE
        q == IF q0 > PHRED_CAP THEN PHRED_CAP ELSE q0
    IN  IF q > 0 THEN q ELSE 0

\* one iteration of the for loop of calc_score
ScoreLoop ==
    /\ sc_pc = "loop"
    /\ sc_i < QualLen(sc_qual)
    /\ sc_score' = sc_score + QualTerm(QualAt(sc_qual, sc_i))
    /\ sc_i' = sc_i + 1
    /\ UNCHANGED <<sc_qual, sc_rec_score, sc_pc, notSc>>

\* calc_score returns; case 10 of parse_sam_line_markdup clamps and stores
ScoreStore ==
    /\ sc_pc = "loop"
    /\ sc_i >= QualLen(sc_qual)
    /\ LET s0 == IF sc_score < 0 THEN 0 ELSE sc_score
           s == IF s0 > UINT16 - 1 THEN UINT16 - 1 ELSE s0
       IN  sc_rec_score' = s % UINT16
    /\ sc_pc' = "stored"
    /\ UNCHANGED <<sc_qual, sc_i, sc_score, notSc>>

\* the quality strings explored: every string of up to MaxQual characters out
\* of ' ' (below the Phred base), '!', '*', '0', '1' and '~', and long runs of
\* 'I' around the length at which the sum passes 65535
QualAlphabet == {CH_SPACE, PHRED_BASE, CH_STAR, CH_0, CH_0 + 1, 126}
ShortQuals ==
    {[k \in 1..Len(q) |-> [ch |-> q[k], n |-> 1]] : q \in SeqsUpTo(QualAlphabet, MaxQual)}
LongQuals == {<<[ch |-> 73, n |-> k]>> : k \in {MaxQualLen - 1, MaxQualLen}}
    \cup {<<[ch |-> 73, n |-> MaxQualLen - 2], [ch |-> CH_SPACE, n |-> 1], [ch |-> 73, n |-> 1]>>}

ScoreInit ==
    /\ sc_qual \in ShortQuals \cup LongQuals
    /\ sc_i = 0 /\ sc_score = 0 /\ sc_rec_score = 0 /\ sc_pc = "loop"
    /\ MdOff /\ ArOff /\ SfOff /\ JobOff /\ PbOff /\ PsOff /\ StOff /\ NmOff /\ RlOff /\ WrOff /\ RfOff /\ SwOff

ScoreNext == ScoreLoop \/ ScoreStore

SpecScore == ScoreInit /\ [][ScoreNext]_vars

\* the sum over the runs of n times a per-character term
RECURSIVE SumRuns(_, _)
SumRuns(runs, cap_only) ==
    IF runs = <<>> THEN 0
    ELSE LET d == Head(runs).ch - PHRED_BASE
             capped == Min(PHRED_CAP, d)
             term == IF cap_only THEN capped ELSE IF capped < 0 THEN 0 ELSE capped
         IN  Head(runs).n * term + SumRuns(Tail(runs), cap_only)

ClampU16(x) == IF x < 0 THEN 0 ELSE Min(UINT16 - 1, x)

\* C18 as stated: the stored score is the sum over the characters c of
\* min(15, c - 33), clamped to [0, 65535].
C18_ScoreIsClampedSumOfMin ==
    sc_pc = "stored" => sc_rec_score = ClampU16(SumRuns(sc_qual, TRUE))

\* C18 (amended): the stored score is the sum over the characters c of
\* max(0, min(15, c - 33)), clamped to [0, 65535]; for the characters '!'..'~'
\* of a valid quality string that is the sum of min(15, c - 33).
C18_ScoreIsClampedSumOfFlooredMin ==
    sc_pc = "stored" =>
        /\ sc_rec_score = ClampU16(SumRuns(sc_qual, FALSE))
        /\ (\A k \in 1..Len(sc_qual) : sc_qual[k].ch >= PHRED_BASE) =>
              sc_rec_score = ClampU16(SumRuns(sc_qual, TRUE))

\* a string whose sum passes 65535 was scored
C18_Witness ==
    /\ sc_pc = "stored" /\ SumRuns(sc_qual, TRUE) > UINT16 - 1
    /\ sc_rec_score = UINT16 - 1

\* the loop and the recursive form used by the line parser agree
ScoreLoopMatchesCalcScore ==
    (sc_pc = "stored" /\ QualLen(sc_qual) = Len(sc_qual)) =>
        sc_score = calc_score([k \in 1..Len(sc_qual) |-> sc_qual[k].ch])


(***************************************************************************)
(* The record parsers applied to one line: parse_rname_pos of the sort     *)
(* (slave.c:31-100), parse_sam_rname_pos of auto_region and                *)
(* split_from_region (auto_region.cpp:188-246), parse_sam_line_markdup     *)
(* (slave.c:325-390) and the field scan of static_region                   *)
(* (static_region.cpp:334-351).                                            *)
(***************************************************************************)
\* line.find('\t', from): the offset of the first TAB at or after from, -1 for npos
RECURSIVE FindTab(_, _)
FindTab(line, from) ==
    IF from >= Len(line) THEN -1
    ELSE IF At(line, from) = TAB THEN from ELSE FindTab(line, from + 1)

\* the RNAME/POS scan of the read loop of static_region
static_rname_pos(line) ==
    LET no == [ok |-> FALSE, rname |-> <<>>, pos |-> 0]
        t1 == FindTab(line, 0)
        t2 == FindTab(line, t1 + 1)
        t3 == FindTab(line, t2 + 1)
        t4f == FindTab(line, t3 + 1)
        t4 == IF t4f = -1 THEN Len(line) ELSE t4f
    IN  IF t1 = -1 THEN no
        ELSE IF t2 = -1 THEN no
        ELSE IF t3 = -1 THEN no
        ELSE LET rname == Slice(line, t2 + 1, t3 - (t2 + 1))
                 pos == Atoi(Slice(line, t3 + 1, t4 - (t3 + 1)), 0)
             IN  IF rname = <<CH_STAR>> \/ pos <= 0 THEN no
                 ELSE [ok |-> TRUE, rname |-> rname, pos |-> pos]

ParseLine ==
    /\ ps_pc = "read"
    /\ ps_sort' = parse_rname_pos(ps_line)
    /\ ps_region' = parse_sam_rname_pos(ps_line)
    /\ ps_markdup' = parse_sam_line_markdup(ps_line, 0, Len(ps_line), <<>>)
    /\ ps_static' = static_rname_pos(ps_line)
    /\ ps_pc' = "parsed"
    /\ UNCHANGED <<ps_line, notPs>>

\* the texts of a numeric field: "5", "12", and the malformed "x", "5x", ""
NumTexts == {<<53>>, <<49, 50>>, <<120>>, <<53, 120>>, <<>>}
IsDecimalText(t) == t # <<>> /\ \A k \in 1..Len(t) : t[k] >= CH_0 /\ t[k] <= CH_9

\* an alignment line with the given FLAG, POS and PNEXT texts
NumLine(flag, pos, pnext) == SamLine(<<97>>, flag, <<66>>, pos, pnext, <<CH_PLUS>>)

ParseInit ==
    /\ \E flag \in NumTexts, pos \in NumTexts, pnext \in NumTexts :
          ps_line = NumLine(flag, pos, pnext)
    /\ ps_sort = <<>> /\ ps_region = <<>> /\ ps_markdup = <<>> /\ ps_static = <<>>
    /\ ps_pc = "read"
    /\ MdOff /\ ArOff /\ SfOff /\ JobOff /\ PbOff /\ ScOff /\ StOff /\ NmOff /\ RlOff /\ WrOff /\ RfOff /\ SwOff

ParseNext == ParseLine

SpecParse == ParseInit /\ [][ParseNext]_vars

\* the FLAG, POS and PNEXT texts of the line parsed
PsField(k) ==
    LET stops == <<-1>> \o SelectSeq([i \in 1..Len(ps_line) |-> i - 1],
                                     LAMBDA i : At(ps_line, i) = TAB) \o <<Len(ps_line)>>
    IN  Slice(ps_line, stops[k] + 1, stops[k + 1] - stops[k] - 1)
PsFlag == PsField(2)
PsPos == PsField(4)
PsPNext == PsField(8)
Malformed == ~IsDecimalText(PsFlag) \/ ~IsDecimalText(PsPos) \/ ~IsDecimalText(PsPNext)

\* C19: a line whose FLAG, POS or PNEXT is not a well-formed decimal integer
\* is classified as not-an-alignment by every parser: none of them turns it
\* into a record with a numeric value.
C19_MalformedNumberIsNotAlignment ==
    (ps_pc = "parsed" /\ Malformed) =>
        /\ ps_sort.valid = 0
        /\ ~ps_region.ok
        /\ ps_markdup.ret < 0
        /\ ~ps_static.ok

\* what does hold: a malformed POS is rejected by parse_rname_pos and by
\* parse_sam_rname_pos
PosParsersRejectMalformedPos ==
    (ps_pc = "parsed" /\ ~IsDecimalText(PsPos)) => ps_sort.valid = 0 /\ ~ps_region.ok


(***************************************************************************)
(* static_region (src/pre-tools/static_region.cpp): the read loop of main  *)
(* that distributes the lines of a SAM file over NUM_REGIONS region files. *)
(* A line is its leading text and the number of further bytes (sequence    *)
(* and quality) that follow it; a file is the sequence of its writes.      *)
(***************************************************************************)
NUM_REGIONS == 384 * 16
BUF_SIZE == 4 * 1024 * 1024
MaxStaticLines == 3

StLine(text, pad) == [text |-> text, pad |-> pad]
\* line.size()
StSize(line) == Len(line.text) + line.pad

\* coord_to_region (static_region.cpp:162-178); -1 when rname is no chromosome
coord_to_region(chroms, rname, pos, region_size, num_regions) ==
    IF ~\E c \in 1..Len(chroms) : chroms[c].name = rname THEN -1
    ELSE IF pos <= 0 THEN -1
    ELSE LET ci == chroms[CHOOSE c \in 1..Len(chroms) : chroms[c].name = rname]
             rid == (ci.offset + (pos - 1)) \div region_size
         IN  IF rid >= num_regions THEN num_regions - 1 ELSE rid

\* std::string::size() of a buffer of lines, each followed by '\n'
RECURSIVE BufBytes(_)
BufBytes(buf) == IF buf = <<>> THEN 0 ELSE StSize(Head(buf)) + 1 + BufBytes(Tail(buf))

\* one iteration of the getline loop (static_region.cpp:322-370)
StReadLine ==
    /\ st_pc = "reading"
    /\ st_next <= Len(st_sam)
    /\ st_next' = st_next + 1
    /\ LET line == st_sam[st_next]
           f == static_rname_pos(line.text)
           rid == coord_to_region(st_chroms, f.rname, f.pos, st_region_size, NUM_REGIONS)
       IN  IF StSize(line) = 0 \/ line.text[1] = CH_AT \/ ~f.ok \/ rid < 0
           THEN UNCHANGED <<st_buffers, st_files>>
           ELSE IF BufBytes(st_buffers[rid]) + StSize(line) + 1 > BUF_SIZE
           THEN /\ st_files' = [st_files EXCEPT ![rid] = Append(@, st_buffers[rid])]
                /\ st_buffers' = [st_buffers EXCEPT ![rid] = <<line>>]
           ELSE /\ st_buffers' = [st_buffers EXCEPT ![rid] = Append(@, line)]
                /\ UNCHANGED st_files
    /\ UNCHANGED <<st_chroms, st_region_size, st_sam, st_pc, notSt>>

\* the final flush (static_region.cpp:375-381)
StFinish ==
    /\ st_pc = "reading"
    /\ st_next > Len(st_sam)
    /\ st_files' = [rid \in DOMAIN st_files |->
                      IF st_buffers[rid] # <<>> THEN Append(st_files[rid], st_buffers[rid])
                      ELSE st_files[rid]]
    /\ st_pc' = "done"
    /\ UNCHANGED <<st_chroms, st_region_size, st_sam, st_next, st_buffers, notSt>>

\* the reference: chr1 and chr2 (load_reference_lengths, static_region.cpp:75-143)
StChroms == <<[name |-> NAME_chr1, length |-> 10000, offset |-> 0],
              [name |-> NAME_chr2, length |-> 8432, offset |-> 10000]>>
StTotalLen == StChroms[2].offset + StChroms[2].length

\* the lines of the SAM file: "@HD", records of chr1 (position 5, short and
\* with 3 MB of sequence, and the last base 10000) and of chr2 (positions 1
\* and 7), an unmapped record
StLineKinds == {"hdr", "c1_5", "c1_5_long", "c1_end", "c2_1", "c2_7", "unmapped"}
StSamLine(kind, k) ==
    LET q == <<96 + k>>
        tail == <<TAB, CH_0, TAB, CH_STAR, TAB, CH_EQ, TAB, CH_0, TAB, CH_0, TAB>>
    IN  CASE kind = "hdr" -> StLine(<<CH_AT, 72, 68>>, 0)
          [] kind = "c1_5" -> StLine(JoinTab(<<q, <<CH_0>>, NAME_chr1, <<53>>>>) \o tail, 8)
          [] kind = "c1_5_long" ->
                StLine(JoinTab(<<q, <<CH_0>>, NAME_chr1, <<53>>>>) \o tail, 3 * 1024 * 1024)
          [] kind = "c1_end" -> StLine(JoinTab(<<q, <<CH_0>>, NAME_chr1, Dec(10000)>>) \o tail, 8)
          [] kind = "c2_1" -> StLine(JoinTab(<<q, <<CH_0>>, NAME_chr2, <<49>>>>) \o tail, 8)
          [] kind = "c2_7" -> StLine(JoinTab(<<q, <<CH_0>>, NAME_chr2, <<55>>>>) \o tail, 8)
          [] kind = "unmapped" -> StLine(JoinTab(<<q, <<52>>, <<CH_STAR>>, <<CH_0>>>>) \o tail, 8)

\* the region files that hold something at the end; every other region file
\* is opened and stays empty
StRegionsOf(sam) ==
    {coord_to_region(StChroms, static_rname_pos(sam[k].text).rname,
                     static_rname_pos(sam[k].text).pos,
                     (StTotalLen + NUM_REGIONS - 1) \div NUM_REGIONS, NUM_REGIONS)
     : k \in {j \in 1..Len(sam) : sam[j].text[1] # CH_AT /\ static_rname_pos(sam[j].text).ok}}

StaticInit ==
    /\ \E kinds \in SeqsUpTo(StLineKinds, MaxStaticLines) :
          /\ st_sam = [k \in 1..Len(kinds) |-> StSamLine(kinds[k], k)]
          /\ st_buffers = [rid \in StRegionsOf(st_sam) |-> <<>>]
          /\ st_files = [rid \in StRegionsOf(st_sam) |-> <<>>]
    /\ st_chroms = StChroms
    /\ st_region_size = (StTotalLen + NUM_REGIONS - 1) \div NUM_REGIONS
    /\ st_next = 1 /\ st_pc = "reading"
    /\ MdOff /\ ArOff /\ SfOff /\ JobOff /\ PbOff /\ ScOff /\ PsOff /\ NmOff /\ RlOff /\ WrOff /\ RfOff /\ SwOff

StaticNext == StReadLine \/ StFinish

SpecStatic == StaticInit /\ [][StaticNext]_vars

\* the first block of header lines of the input
RECURSIVE HeaderBlock(_)
HeaderBlock(sam) ==
    IF sam # <<>> /\ Head(sam).text[1] = CH_AT THEN <<Head(sam)>> \o HeaderBlock(Tail(sam))
    ELSE <<>>

\* the lines of a region file, in file order
StFileLines(rid) == Flatten(st_files[rid])

\* C20: every region file that holds records begins with the header lines of
\* the input, each exactly once and before the first record, however many
\* writes the file was made of.
C20_RegionFileBeginsWithHeader ==
    st_pc = "done" =>
        \A rid \in DOMAIN st_files :
            /\ IsPrefix(HeaderBlock(st_sam), StFileLines(rid))
            /\ \A k \in 1..Len(StFileLines(rid)) :
                  k > Len(HeaderBlock(st_sam)) => StFileLines(rid)[k].text[1] # CH_AT

\* what does hold: the records of a region file are the mapped lines of the
\* input, in input order, also over several writes
StaticRecordsInOrder ==
    st_pc = "done" =>
        \A rid \in DOMAIN st_files :
            StFileLines(rid) =
               SelectSeq(st_sam, LAMBDA l :
                  /\ l.text[1] # CH_AT /\ static_rname_pos(l.text).ok
                  /\ coord_to_region(st_chroms, static_rname_pos(l.text).rname,
                                     static_rname_pos(l.text).pos, st_region_size,
                                     NUM_REGIONS) = rid)

\* a region file was written in two flushes
StaticTwoFlushes == st_pc = "done" /\ \E rid \in DOMAIN st_files : Len(st_files[rid]) = 2


\* the first block of header lines of the input of auto_region
RECURSIVE LeadingHeaderLines(_)
LeadingHeaderLines(spans) ==
    IF spans # <<>> /\ IsHeaderLine(Head(spans))
    THEN <<Head(spans)>> \o LeadingHeaderLines(Tail(spans))
    ELSE <<>>

\* what holds for auto_region: every region file begins with the first block
\* of header lines of the input, and all its header lines precede its records
AutoRegionFileBeginsWithHeader ==
    ar_pc = "done" =>
        \A p \in DOMAIN files :
            /\ IsPrefix(LeadingHeaderLines(SpanLines(sam_buf)), files[p])
            /\ \A a, b \in 1..Len(files[p]) :
                  (IsHeaderLine(files[p][a]) /\ ~IsHeaderLine(files[p][b])) => a < b


(***************************************************************************)
(* check_sam (src/pre-tools/check_sam.cpp): the region a file name stands  *)
(* for and the check of the records of a file against it.                  *)
(***************************************************************************)
CH_DOT == 46
EXT_SAM == <<CH_DOT, 115, 97, 109>>

\* fname.find(".sam") (check_sam.cpp:55): the offset of the first
\* occurrence, -1 for npos
RECURSIVE FindSam(_, _)
FindSam(fname, from) ==
    IF from + Len(EXT_SAM) > Len(fname) THEN -1
    ELSE IF Slice(fname, from, Len(EXT_SAM)) = EXT_SAM THEN from
    ELSE FindSam(fname, from + 1)

\* the end of the token that starts at offset j (check_sam.cpp:66)
RECURSIVE TokenEnd(_, _)
TokenEnd(base, j) ==
    IF j < Len(base) /\ At(base, j) # CH_UNDERSCORE THEN TokenEnd(base, j + 1) ELSE j

\* the split loop (check_sam.cpp:64-70)
RECURSIVE SplitTokens(_, _, _)
SplitTokens(base, i, tokens) ==
    IF i >= Len(base) THEN tokens
    ELSE LET j == TokenEnd(base, i)
             more == Append(tokens, Slice(base, i, j - i))
         IN  IF j = Len(base) THEN more ELSE SplitTokens(base, j + 1, more)

\* the offset behind the digits that start at offset q
RECURSIVE DigitsEnd(_, _)
DigitsEnd(text, q) ==
    IF q < Len(text) /\ At(text, q) >= CH_0 /\ At(text, q) <= CH_9
    THEN DigitsEnd(text, q + 1) ELSE q

\* strtoll(token, &endp, 10) (check_sam.cpp:78, 81) for values that fit a
\* long long: the value and the offset endp points to (the start of the
\* token when it holds no number)
Strtoll(token) ==
    LET q == AtoiSkip(token, 0)
        signed == q < Len(token) /\ (At(token, q) = CH_MINUS \/ At(token, q) = CH_PLUS)
        d == IF signed THEN q + 1 ELSE q
        e == DigitsEnd(token, d)
        v == AtoiDigits(token, d, 0)
    IN  IF e = d THEN [value |-> 0, endp |-> 0]
        ELSE [value |-> IF signed /\ At(token, q) = CH_MINUS THEN -v ELSE v, endp |-> e]

\* parse_filename_region (check_sam.cpp:49-86)
parse_filename_region(fname) ==
    LET no == [ok |-> FALSE, chrName |-> <<>>, start |-> 0, end |-> 0]
        pos == FindSam(fname, 0)
    IN  IF pos = -1 THEN no
        ELSE LET tokens == SplitTokens(Slice(fname, 0, pos), 0, <<>>) IN
             IF Len(tokens) < 3 THEN no
             ELSE LET s == Strtoll(tokens[2])
                      e == Strtoll(tokens[3])
                  IN  IF s.endp # Len(tokens[2]) THEN no
                      ELSE IF e.endp # Len(tokens[3]) THEN no
                      ELSE IF s.value > e.value \/ s.value <= 0 THEN no
                      ELSE [ok |-> TRUE, chrName |-> tokens[1],
                            start |-> s.value, end |-> e.value]

\* the text of a line without the '\n' and '\r' at its end (check_sam.cpp:196-200)
RECURSIVE TrimEol(_)
TrimEol(line) ==
    IF line # <<>> /\ (line[Len(line)] = NL \/ line[Len(line)] = CR)
    THEN TrimEol(SubSeq(line, 1, Len(line) - 1)) ELSE line

\* what the loop of check_one_sam counts a line as (check_sam.cpp:197-254);
\* parse_sam_rname_pos of check_sam.cpp:92-151 is the one of auto_region
CheckLine(line, chrName, region_start, region_end) ==
    IF Len(TrimEol(line)) = 0 \/ At(line, 0) = CH_AT THEN "skipped"
    ELSE LET f == parse_sam_rname_pos(TrimEol(line)) IN
         IF ~f.ok THEN "unmapped_or_zero"
         ELSE IF f.rname = <<CH_STAR>> \/ f.pos <= 0 THEN "unmapped_or_zero"
         ELSE IF f.rname # chrName THEN "bad_chr"
         ELSE IF f.pos < region_start \/ f.pos > region_end THEN "bad_range"
         ELSE "checked"

\* check_one_sam (check_sam.cpp:155-282) on the lines of a file that opens
check_one_sam(fname, lines) ==
    LET r == parse_filename_region(fname) IN
    IF ~r.ok THEN TRUE
    ELSE \A k \in 1..Len(lines) :
            CheckLine(lines[k], r.chrName, r.start, r.end) \notin {"bad_chr", "bad_range"}

(***************************************************************************)
(* The names of the region files of static_region                          *)
(* (static_region.cpp:152-167 and 228-296).                                *)
(***************************************************************************)
\* global_to_chr_pos (static_region.cpp:152-167); chr_index counted from 1
global_to_chr_pos(chrom_order, global_pos) ==
    LET hit == {i \in 1..Len(chrom_order) :
                   /\ global_pos >= chrom_order[i].offset
                   /\ global_pos < chrom_order[i].offset + chrom_order[i].length}
    IN  IF hit = {} THEN [ok |-> FALSE, chr_index |-> 0, chr_pos_1based |-> 0]
        ELSE LET i == CHOOSE i \in hit : \A j \in hit : i <= j
             IN  [ok |-> TRUE, chr_index |-> i,
                  chr_pos_1based |-> (global_pos - chrom_order[i].offset) + 1]

NAME_unknown == <<117, 110, 107, 110, 111, 119, 110>>

\* regions[rid] (static_region.cpp:228-268)
RegionMeta(chrom_order, total_len, region_size, rid) ==
    LET start0 == rid * region_size
        end0 == IF start0 + region_size > total_len THEN total_len
                ELSE start0 + region_size
        global_start == IF start0 >= total_len THEN total_len - 1 ELSE start0
        global_end == (IF start0 >= total_len THEN total_len ELSE end0) - 1
        s == global_to_chr_pos(chrom_order, global_start)
        e == global_to_chr_pos(chrom_order, global_end)
        unknown == [chr |-> NAME_unknown, start_pos |-> 0, end_pos |-> 0]
    IN  IF ~s.ok THEN unknown
        ELSE IF ~e.ok THEN unknown
        ELSE IF s.chr_index = e.chr_index
        THEN [chr |-> chrom_order[s.chr_index].name,
              start_pos |-> s.chr_pos_1based, end_pos |-> e.chr_pos_1based]
        ELSE [chr |-> chrom_order[s.chr_index].name,
              start_pos |-> s.chr_pos_1based,
              end_pos |-> chrom_order[s.chr_index].length]

\* the name of region file rid (static_region.cpp:289-292), without the directory
StFileName(rid) ==
    LET rm == RegionMeta(st_chroms, StTotalLen, st_region_size, rid) IN
    rm.chr \o <<CH_UNDERSCORE>> \o Dec(rm.start_pos) \o <<CH_UNDERSCORE>>
        \o Dec(rm.end_pos) \o <<CH_UNDERSCORE>> \o Dec(rid) \o EXT_SAM

\* the lines check_sam reads from region file rid, up to the position field
StCheckLines(rid) == [k \in 1..Len(StFileLines(rid)) |-> StFileLines(rid)[k].text]

\* C21: every alignment record of a region file named <chr>_<start>_<end> has
\* reference name <chr> and a position within [start, end], as check_sam
\* checks it; here for the region files of static_region.
C21_RegionFileRecordsInNamedRegion ==
    st_pc = "done" =>
        \A rid \in DOMAIN st_files :
            /\ parse_filename_region(StFileName(rid)).ok
            /\ check_one_sam(StFileName(rid), StCheckLines(rid))

\* what does hold for static_region: every record of a region file lies in
\* the stretch of the concatenated reference that the region stands for
StaticRecordsInGlobalRegion ==
    st_pc = "done" =>
        \A rid \in DOMAIN st_files :
            /\ parse_filename_region(StFileName(rid)).ok
            /\ \A k \in 1..Len(StCheckLines(rid)) :
                  LET f == parse_sam_rname_pos(StCheckLines(rid)[k])
                      g == st_chroms[ChrIndex(st_chroms, f.rname)].offset + f.pos - 1
                  IN  /\ f.ok
                      /\ rid * st_region_size <= g
                      /\ g < (rid + 1) * st_region_size

\* the same check on the region files of auto_region, which holds
AutoRegionFilesPassCheckSam ==
    ar_pc = "done" =>
        \A p \in DOMAIN files :
            /\ parse_filename_region(p).ok
            /\ check_one_sam(p, SpanLines(FileBytes(files[p])))


(***************************************************************************)
(* The names of the region files of auto_region and split_from_region, and *)
(* what parse_filename_region of check_sam reads back from them.           *)
(***************************************************************************)
NAME_chr == <<99, 104, 114>>
NAME_chrX == NAME_chr \o <<88>>
NAME_chrY == NAME_chr \o <<89>>

\* the digit loop of is_wanted_chr_name (auto_region.cpp:79-84): i counts
\* from 0; -1 when a character is no digit or the number exceeds 22
RECURSIVE WantedDigits(_, _, _)
WantedDigits(name, i, v) ==
    IF i >= Len(name) THEN v
    ELSE IF At(name, i) < CH_0 \/ At(name, i) > CH_9 THEN -1
    ELSE IF v * 10 + (At(name, i) - CH_0) > 22 THEN -1
    ELSE WantedDigits(name, i + 1, v * 10 + (At(name, i) - CH_0))

\* is_wanted_chr_name (auto_region.cpp:70-87)
is_wanted_chr_name(name) ==
    IF name = NAME_chrX \/ name = NAME_chrY THEN TRUE
    ELSE IF Len(name) <= 3 THEN FALSE
    ELSE IF Slice(name, 0, 3) # NAME_chr THEN FALSE
    ELSE LET v == WantedDigits(name, 3, 0) IN v >= 1 /\ v <= 22

\* parse_fasta keeps the chromosome or finds none (auto_region.cpp:127-158),
\* build_regions_for_chr cuts it and split_sam_by_regions_from_memory names
\* the file of one of its regions (auto_region.cpp:568-574)
NameAutoRegion ==
    /\ nm_pc = "input" /\ nm_tool = "auto_region"
    /\ IF ~is_wanted_chr_name(nm_input.name)
       THEN /\ nm_pc' = "exit1"
            /\ UNCHANGED <<nm_region, nm_path>>
       ELSE \E c \in {ChrInfo(nm_input.name, nm_input.length,
                              [b \in 1..NumBins(nm_input.length) |-> 0])} :
            \E rg \in Range(build_regions_for_chr(c, nm_input.target)) :
               /\ nm_region' = [chr |-> c.name, start |-> rg.start, end |-> rg.end]
               /\ nm_path' = RegionPath(c, rg)
               /\ nm_pc' = "named"
    /\ UNCHANGED <<nm_tool, nm_input, nm_parsed, notNm>>

\* the numbers of a line of region.txt (split_from_region.cpp:165-183)
RegionOfTokens(tokens) ==
    LET s == Strtoll(tokens[2])
        e == Strtoll(tokens[3])
    IN  [ok |-> s.endp = Len(tokens[2]) /\ e.endp = Len(tokens[3]),
         r |-> [chr |-> tokens[1], start |-> s.value, end |-> e.value]]

\* "%s_%lld_%lld.sam" (split_from_region.cpp:192-196), without the directory
SfOutPath(r) ==
    r.chr \o <<CH_UNDERSCORE>> \o Dec(r.start) \o <<CH_UNDERSCORE>> \o Dec(r.end)
        \o EXT_SAM

\* load_regions on one line of region.txt (split_from_region.cpp:149-200)
NameSplitRegion ==
    /\ nm_pc = "input" /\ nm_tool = "split_from_region"
    /\ LET t == RegionOfTokens(nm_input) IN
       IF ~t.ok \/ ~load_regions(<<t.r>>, <<>>).ok
       THEN /\ nm_pc' = "exit1"
            /\ UNCHANGED <<nm_region, nm_path>>
       ELSE /\ nm_region' = t.r
            /\ nm_path' = SfOutPath(t.r)
            /\ nm_pc' = "named"
    /\ UNCHANGED <<nm_tool, nm_input, nm_parsed, notNm>>

\* check_sam reads the name back (check_sam.cpp:347-350)
CheckSamParse ==
    /\ nm_pc = "named"
    /\ nm_parsed' = parse_filename_region(nm_path)
    /\ nm_pc' = "parsed"
    /\ UNCHANGED <<nm_tool, nm_input, nm_region, nm_path, notNm>>

\* chromosome names: of the primary assembly, "chr23", "chrM", an unplaced
\* contig "chr1_r", "c.sam"
NmChrNames ==
    {NAME_chr1, NAME_chr \o <<50, 50>>, NAME_chrX, NAME_chr \o <<50, 51>>, NAME_chrM,
     NAME_chr1 \o <<CH_UNDERSCORE, 114>>, <<99>> \o EXT_SAM}
\* "1", "5", "+5", "007", "0", "-3", "5x"
NmStartTexts ==
    {<<49>>, <<53>>, <<CH_PLUS, 53>>, <<48, 48, 55>>, <<48>>, <<CH_MINUS, 51>>, <<53, 120>>}
\* "5", "9", "12", "3", "9x"
NmEndTexts == {<<53>>, <<57>>, <<49, 50>>, <<51>>, <<57, 120>>}
NmLengths == {1, BIN_SIZE + 500, 2 * BIN_SIZE + 500}
NmTargets == {0, 1}

NamesInit ==
    /\ nm_tool \in {"auto_region", "split_from_region"}
    /\ IF nm_tool = "auto_region"
       THEN nm_input \in [name : NmChrNames, length : NmLengths, target : NmTargets]
       ELSE nm_input \in {<<c, s, e>> : c \in NmChrNames, s \in NmStartTexts, e \in NmEndTexts}
    /\ nm_region = <<>> /\ nm_path = <<>> /\ nm_parsed = <<>> /\ nm_pc = "input"
    /\ MdOff /\ ArOff /\ SfOff /\ JobOff /\ PbOff /\ ScOff /\ PsOff /\ StOff /\ RlOff /\ WrOff /\ RfOff /\ SwOff

NamesNext == NameAutoRegion \/ NameSplitRegion \/ CheckSamParse

SpecNames == NamesInit /\ [][NamesNext]_vars

\* C22: for every region a partitioner names a file for, parse_filename_region
\* succeeds on the name and returns the same chr, start and end.
C22_FileNameParsesBackToRegion ==
    nm_pc = "parsed" =>
        /\ nm_parsed.ok
        /\ nm_parsed.chrName = nm_region.chr
        /\ nm_parsed.start = nm_region.start
        /\ nm_parsed.end = nm_region.end

\* what does hold: the names auto_region gives parse back to the region, and
\* so do the names of split_from_region for a chromosome name that holds
\* neither '_' nor ".sam"
NamesParseBackWithoutSeparator ==
    (/\ nm_pc = "parsed"
     /\ CH_UNDERSCORE \notin Range(nm_region.chr)
     /\ FindSam(nm_region.chr, 0) = -1) => C22_FileNameParsesBackToRegion

AutoRegionNamesParseBack ==
    (nm_pc = "parsed" /\ nm_tool = "auto_region") => C22_FileNameParsesBackToRegion


(***************************************************************************)
(* Further claims about a worker job.                                      *)
(***************************************************************************)
\* C23: sorting is idempotent: the sort-only job applied to the output of a
\* sort-only job yields a byte-identical buffer, for every input buffer.
C23_SortIsIdempotent ==
    job_pc = "resorted" => (out_size = size /\ out_buf = in_buf)

\* what does hold: sorting the output again changes nothing when every line
\* of the input buffer ends with a newline
SortIsIdempotentOnClosedBuffers ==
    (job_pc = "resorted" /\ file_bytes[Len(file_bytes)] = NL)
        => (out_size = size /\ out_buf = in_buf)


(***************************************************************************)
(* build_regions_for_chr on the scenario of three chromosomes of lengths   *)
(* 10,000, 5,000 and 1,000 with a target of half the byte weight of the    *)
(* first one.                                                              *)
(***************************************************************************)
MaxBinWeight == 1
NAME_chr3 == NAME_chr \o <<51>>

\* the sum of the weights of bins 1..n
RECURSIVE WeightUpTo(_, _)
WeightUpTo(w, n) == IF n = 0 THEN 0 ELSE w[n] + WeightUpTo(w, n - 1)

\* accum_bytes + w >= target_bytes compares doubles (auto_region.cpp:401);
\* for whole-numbered weights and the target total / 2 it is the comparison
\* with the half rounded up
HalfOf(total) == CeilDiv(total, 2)

ScenarioInit ==
    /\ \E w1 \in [1..NumBins(10 * BIN_SIZE) -> 0..MaxBinWeight] :
       \E full2, full3 \in BOOLEAN :
          /\ chrs = <<ChrInfo(NAME_chr1, 10 * BIN_SIZE, w1),
                      ChrInfo(NAME_chr2, 5 * BIN_SIZE,
                              [b \in 1..5 |-> IF full2 THEN 2 ELSE 0]),
                      ChrInfo(NAME_chr3, BIN_SIZE,
                              [b \in 1..1 |-> IF full3 THEN 7 ELSE 0])>>
          /\ target_bytes = HalfOf(WeightUpTo(w1, Len(w1)))
    /\ ar_pc = "loaded"
    /\ SamOff /\ MdOff /\ SfOff /\ JobOff /\ PbOff /\ ScOff /\ PsOff /\ StOff /\ NmOff /\ RlOff /\ WrOff /\ RfOff /\ SwOff

ScenarioNext == BuildRegions

SpecScenario == ScenarioInit /\ [][ScenarioNext]_vars

\* C24 as stated: at least two regions for the first chromosome and exactly
\* one for the 1,000-base chromosome, for every distribution of the weight
\* over the bins.
C24_TwoRegionsForFirstOneForSmallest ==
    ar_pc = "regions" =>
        /\ Len(chrs[1].regions) >= 2
        /\ Len(chrs[3].regions) = 1

\* the bins before the last one of the first chromosome weigh at least the target
HalfBeforeLastBin ==
    WeightUpTo(chrs[1].bin_weight, chrs[1].num_bins - 1) >= target_bytes

\* C24 amended: exactly one region for the 1,000-base chromosome for every
\* distribution, and at least two regions for the first chromosome whenever
\* its bins before the last one weigh at least the target together.
C24_TwoRegionsWhenHalfBeforeLastBin ==
    ar_pc = "regions" =>
        /\ HalfBeforeLastBin => Len(chrs[1].regions) >= 2
        /\ Len(chrs[3].regions) = 1

\* the weight of the first chromosome is spread unevenly, half of it is
\* reached before the last bin, and the regions are built
C24_Witness ==
    /\ ar_pc = "regions"
    /\ HalfBeforeLastBin
    /\ target_bytes >= 2
    /\ chrs[1].bin_weight[1] = 0
    /\ Len(chrs[1].regions) >= 2
    /\ Len(chrs[3].regions) = 1

\* the only distributions with a single region for the first chromosome: the
\* target is reached in the last bin only
SingleRegionOnlyWhenHalfInLastBin ==
    ar_pc = "regions" =>
        (Len(chrs[1].regions) = 1 <=> ~HalfBeforeLastBin)


(***************************************************************************)
(* The bin loop of build_regions_for_chr (auto_region.cpp:383-419), one    *)
(* iteration at a time.                                                    *)
(***************************************************************************)
\* a mutant of Closes: the region is closed only above the target
Closes_AboveTarget(accum_bytes, w, target) == accum_bytes + w > target

\* if (accum_bytes + w >= target_bytes)  (auto_region.cpp:401)
Closes(accum_bytes, w, target) == accum_bytes + w >= target

\* one iteration of the bin loop (auto_region.cpp:388-412)
RlBin ==
    /\ rl_pc = "loop"
    /\ rl_b < rl_chr.num_bins
    /\ rl_start <= rl_chr.length
    /\ LET w == rl_chr.bin_weight[rl_b + 1]
           bin_end_pos == Min((rl_b + 1) * BIN_SIZE, rl_chr.length)
       IN  IF Closes(rl_accum, w, rl_target)
           THEN /\ rl_chr' = [rl_chr EXCEPT !.regions =
                                 Append(@, [start |-> rl_start, end |-> bin_end_pos])]
                /\ rl_in_loop' = rl_in_loop \cup {Len(rl_chr.regions) + 1}
                /\ rl_start' = bin_end_pos + 1
                /\ rl_accum' = 0
           ELSE /\ rl_accum' = rl_accum + w
                /\ UNCHANGED <<rl_chr, rl_in_loop, rl_start>>
    /\ rl_b' = rl_b + 1
    /\ UNCHANGED <<rl_target, rl_pc, notRl>>

\* the loop ends or breaks, and the tail region (auto_region.cpp:388, 394-395, 414-419)
RlTail ==
    /\ rl_pc = "loop"
    /\ rl_b >= rl_chr.num_bins \/ rl_start > rl_chr.length
    /\ rl_chr' = IF rl_start <= rl_chr.length
                 THEN [rl_chr EXCEPT !.regions =
                          Append(@, [start |-> rl_start, end |-> rl_chr.length])]
                 ELSE rl_chr
    /\ rl_pc' = "done"
    /\ UNCHANGED <<rl_target, rl_b, rl_accum, rl_start, rl_in_loop, notRl>>

\* main calls build_regions_for_chr with the positive target of
\* TARGET_REGION_MB MB (auto_region.cpp:773-781); the small targets let the
\* few bins of a chromosome fill a region
RlTargets == BrTargets \ {0}

\* the state behind auto_region.cpp:383-385, for a chromosome with bins
RlInit ==
    /\ \E len \in BrLengths : \E w \in [1..NumBins(len) -> BrWeights] :
          rl_chr = ChrInfo(NAME_chr1, len, w)
    /\ rl_target \in RlTargets
    /\ rl_b = 0 /\ rl_accum = 0 /\ rl_start = 1
    /\ rl_in_loop = {} /\ rl_pc = "loop"
    /\ MdOff /\ ArOff /\ SfOff /\ JobOff /\ PbOff /\ ScOff /\ PsOff /\ StOff /\ NmOff /\ WrOff /\ RfOff /\ SwOff

RlNext == RlBin \/ RlTail

SpecRegionLoop == RlInit /\ [][RlNext]_vars

\* the bins (counted from 1) a region covers
FirstBinOf(rg) == (rg.start - 1) \div BIN_SIZE + 1
LastBinOf(rg) == (rg.end - 1) \div BIN_SIZE + 1
\* the total weight of bins lo..hi
BinsWeight(w, lo, hi) == WeightUpTo(w, hi) - WeightUpTo(w, lo - 1)

\* C25: every region closed inside the bin loop ends at the upper bound of a
\* bin (a multiple of the bin width, or the chromosome length for the last
\* bin), the bins it covers weigh at least the target, and its bins without
\* the last one weigh less than the target; only the final tail region may
\* weigh less than the target.
C25_LoopRegionsReachTargetAtBinEnd ==
    \A i \in 1..Len(rl_chr.regions) :
        LET rg == rl_chr.regions[i]
            w == rl_chr.bin_weight
        IN  IF i \in rl_in_loop
            THEN /\ rg.end = Min(LastBinOf(rg) * BIN_SIZE, rl_chr.length)
                 /\ rg.start = (FirstBinOf(rg) - 1) * BIN_SIZE + 1
                 /\ BinsWeight(w, FirstBinOf(rg), LastBinOf(rg)) >= rl_target
                 /\ BinsWeight(w, FirstBinOf(rg), LastBinOf(rg) - 1) < rl_target
            ELSE /\ rl_pc = "done"
                 /\ i = Len(rl_chr.regions)

\* a region over two bins was closed inside the loop, the last bin of the
\* chromosome is a short one, and a tail region below the target follows
C25_Witness ==
    /\ rl_pc = "done"
    /\ rl_in_loop = {1}
    /\ Len(rl_chr.regions) = 2
    /\ LastBinOf(rl_chr.regions[1]) > FirstBinOf(rl_chr.regions[1])
    /\ rl_chr.length % BIN_SIZE # 0
    /\ BinsWeight(rl_chr.bin_weight, FirstBinOf(rl_chr.regions[2]),
                  LastBinOf(rl_chr.regions[2])) \in 1..(rl_target - 1)

\* the tail region weighs less than the target
TailRegionBelowTarget ==
    \A i \in 1..Len(rl_chr.regions) :
        i \notin rl_in_loop =>
            BinsWeight(rl_chr.bin_weight, FirstBinOf(rl_chr.regions[i]),
                       LastBinOf(rl_chr.regions[i])) < rl_target

\* the loop taken step by step builds the regions of build_regions_for_chr
StepsBuildTheRegions ==
    rl_pc = "done" =>
        rl_chr.regions =
            build_regions_for_chr([rl_chr EXCEPT !.regions = <<>>], rl_target)


\* *(para->out_size) and the first out_size bytes of out_buf after the join
JobOutput == SubSeq(out_buf, 1, out_size)

\* the duplicate-marking step of MODE_ALL failed or yielded nothing
MarkdupFailed == job_ret # 0 \/ markdup_size = 0

\* C26: in MODE_ALL, when the duplicate-marking step fails or yields a
\* zero-length result, the reported output length is the sorted size and the
\* output buffer holds exactly the sorted lines, untouched by that step.
C26_FailedMarkdupKeepsSortResult ==
    (job_pc = "joined" /\ mode = MODE_ALL /\ size # 0 /\ MarkdupFailed) =>
        /\ out_size = Len(SortToOut(file_bytes, size))
        /\ out_buf = SortToOut(file_bytes, size)

\* the step failed for lack of capacity after it had written to the scratch
\* buffer, and the lines were reordered by the sort
C26_Witness ==
    /\ job_pc = "joined" /\ mode = MODE_ALL /\ size # 0
    /\ job_ret # 0
    /\ in_buf # file_bytes
    /\ out_buf # file_bytes

\* the step succeeded without a result: the buffer holds no header and no record
C26_WitnessZeroLength ==
    /\ job_pc = "joined" /\ mode = MODE_ALL /\ size # 0
    /\ job_ret = 0 /\ markdup_size = 0


\* the size main allocates for in_buf and for out_buf (main.c:424-431), which
\* process_batch passes as out_buf_capacity (main.c:185-192)
Allocated == BufSize(Len(file_bytes))

\* what does hold, for buffers whose lines are shorter than 65,536 bytes: in
\* every mode the reported output length never exceeds the capacity of the
\* output buffer (1.05 x the input size), and every byte the worker wrote to
\* the output buffer or to the scratch input buffer lies within it
ShortLinesStayWithinCapacity ==
    (job_pc = "joined" /\ size # 0) =>
        /\ out_buf_capacity = Allocated
        /\ out_size <= Allocated
        /\ Len(out_buf) <= Allocated
        /\ Len(in_buf) <= Allocated

\* duplicate marking made the output longer than the input, within the capacity
OutputGrewWithinCapacity ==
    /\ job_pc = "joined" /\ mode = MODE_ALL
    /\ job_ret = 0
    /\ out_size > size
    /\ Len(in_buf) > size


\* how often line occurs among lines
Count(lines, line) == Cardinality({k \in 1..Len(lines) : lines[k] = line})

\* the two sequences of lines are the same multiset
SameLines(a, b) ==
    /\ Len(a) = Len(b)
    /\ \A k \in 1..Len(a) : Count(a, a[k]) = Count(b, a[k])

\* a job of sorting alone has run
SortOnlyDone == job_pc = "joined" /\ size > 0 /\ mode = MODE_SORT_ONLY

\* C29: in sort-only mode the output buffer has the length of the input
\* buffer and, split at newline characters, consists of exactly the same
\* multiset of lines as the input, also when the last line of the input has
\* no trailing newline.
C29_SortOnlyKeepsLengthAndLines ==
    SortOnlyDone =>
        /\ out_size = size
        /\ SameLines(TextLines(OutBytes), TextLines(file_bytes))

\* what does hold: the output has the length of the input, and the same
\* bytes as a multiset
SortOnlyKeepsLength ==
    SortOnlyDone =>
        /\ out_size = size
        /\ \A c \in Range(file_bytes) : Count(OutBytes, c) = Count(file_bytes, c)

\* what does hold: the lines are kept when the last line of the input ends
\* with a newline
SortOnlyKeepsLinesOfClosedBuffers ==
    (SortOnlyDone /\ file_bytes[Len(file_bytes)] = NL) =>
        SameLines(TextLines(OutBytes), TextLines(file_bytes))

(***************************************************************************)
(* write_sam_record (slave.c:442-482) on a line of any length: the record  *)
(* fields parse_sam_line_markdup stores for it (slave.c:331-345) and the   *)
(* ranges of out_buf the function writes.  A line is given by the lengths  *)
(* of its parts: QNAME, the FLAG text, and the rest from the TAB behind    *)
(* FLAG to the end of the line.                                            *)
(***************************************************************************)
\* len of parse_sam_line_markdup: the length of the line without its newline
WrLineLen(line) == line.qname_len + 1 + Len(line.flag_text) + line.rest_len

\* memset, line_offset, line_len and case 1 of parse_sam_line_markdup
\* (slave.c:331-345); line_len and flag_len are uint16_t
WrParse ==
    /\ wr_pc = "line"
    /\ wr_rec' = [line_offset |-> wr_line.line_offset,
                  line_len |-> WrLineLen(wr_line) % UINT16,
                  flag_offset |-> wr_line.line_offset + wr_line.qname_len + 1,
                  flag_len |-> Len(wr_line.flag_text) % UINT16,
                  flag |-> Atoi(wr_line.flag_text, 0) % UINT16,
                  is_duplicate |-> 0]
    /\ wr_pc' = "parsed"
    /\ UNCHANGED <<wr_line, wr_out_pos, wr_cap, wr_calls, wr_ret, notWr>>

\* mark_duplicates_sorted marks the record or not (slave.c:407-436)
WrMark ==
    /\ wr_pc = "parsed"
    /\ wr_rec.is_duplicate = 0
    /\ wr_rec' = [wr_rec EXCEPT !.is_duplicate = 1]
    /\ UNCHANGED <<wr_line, wr_out_pos, wr_cap, wr_calls, wr_ret, wr_pc, notWr>>

\* write_sam_record (slave.c:442-482).  needed is an int converted to
\* unsigned long and after_flag_len is an unsigned long difference: a
\* negative number here stands for that number + 2^64.  Adding it to
\* *out_pos wraps around, which gives the sum of the numbers when that is
\* not negative.
WrWrite ==
    /\ wr_pc = "parsed"
    /\ LET new_flag == IF wr_rec.is_duplicate = 1 /\ ~HasBit(wr_rec.flag, BAM_FDUP)
                       THEN wr_rec.flag + BAM_FDUP ELSE wr_rec.flag
           flag_str_len == Len(Dec(new_flag))
           needed == wr_rec.line_len - wr_rec.flag_len + flag_str_len + 1
           before_flag == wr_rec.flag_offset - wr_rec.line_offset
           after_flag_offset == wr_rec.flag_offset + wr_rec.flag_len
           after_flag_len == wr_rec.line_offset + wr_rec.line_len - after_flag_offset
           p1 == wr_out_pos + before_flag
           p2 == p1 + flag_str_len
           p3 == p2 + after_flag_len
       IN  IF wr_out_pos + needed < 0 \/ wr_out_pos + needed > wr_cap
           THEN /\ wr_ret' = -1
                /\ UNCHANGED <<wr_out_pos, wr_calls>>
           ELSE /\ wr_ret' = 0
                /\ wr_calls' = <<[dst |-> wr_out_pos, len |-> before_flag],
                                 [dst |-> p1, len |-> flag_str_len],
                                 [dst |-> p2, len |-> after_flag_len],
                                 [dst |-> p3, len |-> 1]>>
                /\ wr_out_pos' = p3 + 1
    /\ wr_pc' = "written"
    /\ UNCHANGED <<wr_line, wr_rec, wr_cap, notWr>>

\* the lines: at the start of the buffer or behind a line of 40 bytes; read
\* names of 1, 20 and 300 bytes; FLAG "0", "99", "1024"; a rest of 20 bytes,
\* and rests that bring the line to 65,535 bytes and beyond (long reads)
WrLineOffsets == {0, 40}
WrQNameLens == {1, 20, 300}
WrFlagTexts == {<<48>>, <<57, 57>>, <<49, 48, 50, 52>>}
WrRestLens == {20, 65000, 65530, 65536, 65540, 65800, 70000}

\* the line is the last one of a buffer that main read and markdup_core
\* copied up to this line (main.c:424-431, 185-192)
WriteInit ==
    /\ wr_line \in [line_offset : WrLineOffsets, qname_len : WrQNameLens,
                    flag_text : WrFlagTexts, rest_len : WrRestLens]
    /\ wr_rec = <<>>
    /\ wr_out_pos = wr_line.line_offset
    /\ wr_cap = BufSize(wr_line.line_offset + WrLineLen(wr_line) + 1)
    /\ wr_calls = <<>> /\ wr_ret = 0 /\ wr_pc = "line"
    /\ MdOff /\ ArOff /\ SfOff /\ JobOff /\ PbOff /\ ScOff /\ PsOff /\ StOff /\ NmOff /\ RlOff /\ RfOff /\ SwOff

WriteNext == WrParse \/ WrMark \/ WrWrite

SpecWrite == WriteInit /\ [][WriteNext]_vars

\* the bytes of a write on out_buf lie within the capacity
WithinCapacity(call) == call.len >= 0 /\ call.dst + call.len <= wr_cap

\* C27: for every job with non-zero input the output length the worker
\* reports never exceeds the capacity of the output buffer, and every byte
\* the worker writes to the output (or scratch) buffer lies within that
\* capacity; here for the writes of write_sam_record.
C27_WritesStayWithinCapacity ==
    wr_pc = "written" =>
        /\ wr_out_pos >= 0 /\ wr_out_pos <= wr_cap
        /\ \A k \in 1..Len(wr_calls) : WithinCapacity(wr_calls[k])

\* what does hold: the writes of a line shorter than 65,536 bytes lie
\* within the capacity
WritesOfShortLineStayWithinCapacity ==
    (wr_pc = "written" /\ WrLineLen(wr_line) < UINT16) =>
        /\ wr_out_pos >= 0 /\ wr_out_pos <= wr_cap
        /\ \A k \in 1..Len(wr_calls) : WithinCapacity(wr_calls[k])


(***************************************************************************)
(* get_ref_id (slave.c:266-285) over the records of one buffer: the first  *)
(* pass of markdup_core calls it for the RNAME of each record, with one    *)
(* ref_map for the whole buffer (slave.c:505-545).  The k-th distinct      *)
(* reference name of the buffer is the decimal text of k, as in an         *)
(* assembly whose contigs are numbered.                                    *)
(***************************************************************************)
\* the number of distinct reference names in one buffer
MaxRefNames == 258

\* the k-th distinct reference name
RefName(k) == Dec(k)

\* a record names a reference that no earlier record of the buffer named
\* (slave.c:346-348)
RfNewName ==
    /\ Len(rf_tid) < MaxRefNames
    /\ \E r \in {get_ref_id(rf_map, RefName(Len(rf_tid) + 1))} :
        /\ rf_map' = r.map
        /\ rf_tid' = Append(rf_tid, r.id)
        /\ rf_last' = <<Len(rf_tid) + 1, r.id>>
    /\ UNCHANGED notRf

\* a record names the first or the latest reference again
RfSeenName ==
    /\ \E k \in {1, Len(rf_tid)} :
        /\ k >= 1
        /\ \E r \in {get_ref_id(rf_map, RefName(k))} :
            /\ rf_map' = r.map
            /\ rf_tid' = [rf_tid EXCEPT ![k] = r.id]
            /\ rf_last' = <<k, r.id>>
    /\ UNCHANGED notRf

\* a record with RNAME '*'
RfUnmapped ==
    /\ \E r \in {get_ref_id(rf_map, <<CH_STAR>>)} :
        /\ rf_map' = r.map
        /\ rf_last' = <<0, r.id>>
    /\ UNCHANGED <<rf_tid, notRf>>

\* record_list_init: calloc leaves the map empty (slave.c:288-300)
RefsInit ==
    /\ rf_map = <<>> /\ rf_tid = <<>> /\ rf_last = <<>>
    /\ MdOff /\ ArOff /\ SfOff /\ JobOff /\ PbOff /\ ScOff /\ PsOff /\ StOff /\ NmOff /\ RlOff /\ WrOff /\ SwOff

RefsNext == RfNewName \/ RfSeenName \/ RfUnmapped

SpecRefs == RefsInit /\ [][RefsNext]_vars

\* a mapped first-of-pair record at position 100 of the reference with id tid
RecordOn(tid) ==
    [tid |-> tid, pos |-> 100, mate_tid |-> tid, mate_pos |-> 300,
     orientation |-> 0, flag |-> 0, score |-> 0, is_duplicate |-> 0]

\* C28: two records with different reference names, neither of them '*',
\* never get the same reference id, so they never have the same duplicate
\* key, for any number of distinct names in one buffer, more than 256 included.
C28_DifferentNamesDifferentIds ==
    \A a, b \in 1..Len(rf_tid) :
        a # b => /\ rf_tid[a] # rf_tid[b]
                 /\ compare_records(RecordOn(rf_tid[a]), RecordOn(rf_tid[b])) # 0

\* what does hold: the names that got a place in the table have different ids
NamesInTableHaveDifferentIds ==
    \A a, b \in 1..Len(rf_tid) :
        (a # b /\ rf_tid[a] # -1) => rf_tid[a] # rf_tid[b]

\* the first MAX_REFS names get the ids 0..255, every further name gets -1,
\* the id of '*'
IdsOfNames ==
    /\ \A k \in 1..Len(rf_tid) : rf_tid[k] = IF k <= MAX_REFS THEN k - 1 ELSE -1
    /\ (rf_last # <<>> /\ rf_last[1] = 0) => rf_last[2] = -1


(***************************************************************************)
(* The block writer and reader of src/src/todo_bam.cpp:265-631.  The       *)
(* strings of a record are given by their lengths; a serialized record is  *)
(* the tuple of the values swbam1_serialize lays out, and a block is the   *)
(* sequence of the serialized records in it.  slave_compressfunc and       *)
(* slave_decompressfunc are not part of the sources: a compression either  *)
(* fails (out_size 0) or yields a block that decompresses to its input.    *)
(***************************************************************************)
SWBAM_BLOCK_SIZE == 2 * 1024 * 1024

\* the fixed part of a serialized record: 5 int32, flag, mapq, a reserved
\* byte, 5 uint32 (todo_bam.cpp:266)
SWBAM_FIXED_LEN == 44

\* the number of swbam_write1 calls on one writer
MaxWrites == 4

\* need of swbam1_serialize and swbam1_deserialize (todo_bam.cpp:266-267)
Need(b) == SWBAM_FIXED_LEN + b.l_qname + b.l_cigar + b.l_seq + b.l_qual + b.l_aux

\* the return value of swbam1_serialize(b, buf, buf_len) (todo_bam.cpp:265-299)
swbam1_serialize(b, buf_len) == IF Need(b) > buf_len THEN 0 ELSE Need(b)

\* the bytes swbam1_serialize writes (todo_bam.cpp:275-297)
Serialized(b) ==
    <<b.tid, b.pos, b.mate_tid, b.mate_pos, b.tlen, b.flag, b.mapq, 0,
      b.l_qname, b.l_cigar, b.l_seq, b.l_qual, b.l_aux>>

\* the record swbam1_deserialize builds from them (todo_bam.cpp:301-354)
swbam1_deserialize(t) ==
    [tid |-> t[1], pos |-> t[2], mate_tid |-> t[3], mate_pos |-> t[4],
     tlen |-> t[5], flag |-> t[6], mapq |-> t[7],
     l_qname |-> t[9], l_cigar |-> t[10], l_seq |-> t[11], l_qual |-> t[12],
     l_aux |-> t[13]]

\* the loops of swbam_write1 over recs_buf (todo_bam.cpp:508-512, 518-524):
\* the index of the first record that does not fit (0: none), the bytes
\* written before it, and the block
RECURSIVE SerializeLoop(_, _, _, _)
SerializeLoop(recs_buf, i, written, ublock) ==
    IF i > Len(recs_buf)
    THEN [failed |-> 0, written |-> written, ublock |-> ublock]
    ELSE IF swbam1_serialize(recs_buf[i], SWBAM_BLOCK_SIZE - written) = 0
    THEN [failed |-> i, written |-> written, ublock |-> ublock]
    ELSE SerializeLoop(recs_buf, i + 1, written + Need(recs_buf[i]),
                       Append(ublock, Serialized(recs_buf[i])))

\* swbam_writer_flush_block (todo_bam.cpp:487-498); compressed tells whether
\* swbam_compress_block succeeds
swbam_writer_flush_block(w, compressed) ==
    IF w.ublock_size = 0 THEN [w |-> w, ret |-> TRUE]
    ELSE IF ~compressed THEN [w |-> w, ret |-> FALSE]
    ELSE [w |-> [w EXCEPT !.fp = Append(@, w.ublock), !.ublock_size = 0,
                          !.recs_buf = <<>>],
          ret |-> TRUE]

\* swbam_write1 (todo_bam.cpp:500-542)
swbam_write1(w, b, compressed) ==
    LET pushed == Append(w.recs_buf, b)
        first == SerializeLoop(pushed, 1, 0, <<>>)
    IN  IF first.failed = 0
        THEN [w |-> [w EXCEPT !.recs_buf = pushed, !.ublock = first.ublock,
                              !.ublock_size = first.written],
              ret |-> 0]
        ELSE LET popped == SubSeq(pushed, 1, Len(pushed) - 1)
                 again == SerializeLoop(popped, 1, 0, <<>>)
             IN  IF again.failed # 0
                 THEN [w |-> [w EXCEPT !.recs_buf = popped, !.ublock = again.ublock],
                       ret |-> -1]
                 ELSE LET f == swbam_writer_flush_block(
                                   [w EXCEPT !.recs_buf = popped,
                                             !.ublock = again.ublock,
                                             !.ublock_size = again.written],
                                   compressed)
                      IN  IF ~f.ret THEN [w |-> f.w, ret |-> -1]
                          ELSE IF swbam1_serialize(b, SWBAM_BLOCK_SIZE) = 0
                          THEN [w |-> [f.w EXCEPT !.recs_buf = Append(@, b)],
                                ret |-> -1]
                          ELSE [w |-> [f.w EXCEPT !.recs_buf = Append(@, b),
                                                  !.ublock = <<Serialized(b)>>,
                                                  !.ublock_size = Need(b)],
                                ret |-> 0]

\* swbam_load_next_block (todo_bam.cpp:584-615) on the blocks of the file
swbam_load_next_block(r, blocks) ==
    IF r.cur_block >= r.blocknum
    THEN [r |-> [r EXCEPT !.cur_recs = <<>>, !.rec_idx = 0], ret |-> FALSE]
    ELSE LET recs == [k \in 1..Len(blocks[r.cur_block + 1]) |->
                         swbam1_deserialize(blocks[r.cur_block + 1][k])]
         IN  [r |-> [r EXCEPT !.cur_recs = recs, !.rec_idx = 0,
                              !.cur_block = @ + 1],
              ret |-> recs # <<>>]

\* swbam_read1 (todo_bam.cpp:617-631): every block of the file holds a
\* record, so that the loop loads at most one block
swbam_read1(r, blocks) ==
    IF r.rec_idx < Len(r.cur_recs)
    THEN [r |-> [r EXCEPT !.rec_idx = @ + 1], ret |-> 1,
          b |-> r.cur_recs[r.rec_idx + 1]]
    ELSE LET l == swbam_load_next_block(r, blocks)
         IN  IF ~l.ret THEN [r |-> l.r, ret |-> 0, b |-> <<>>]
             ELSE [r |-> [l.r EXCEPT !.rec_idx = 1], ret |-> 1, b |-> l.r.cur_recs[1]]

\* the i-th record of the caller: as the test records of main
\* (todo_bam.cpp:676-703), with SEQ and QUAL of l_seq bytes each
SwRecord(i, l_seq) ==
    [tid |-> 0, pos |-> i * 100, mate_tid |-> -1, mate_pos |-> -1, tlen |-> 0,
     flag |-> 0, mapq |-> 60, l_qname |-> 6, l_cigar |-> 4, l_seq |-> l_seq,
     l_qual |-> l_seq, l_aux |-> 0]

\* reads of 10 bases, of half a megabase (two of them do not fit into one
\* block) and of a megabase (larger than a block)
SwSeqLens == {10, 524288, 1048576}

\* a call of swbam_write1
SwWrite1 ==
    /\ sw_pc = "writing"
    /\ Len(sw_log) < MaxWrites
    /\ \E l_seq \in SwSeqLens, compressed \in BOOLEAN :
        \E res \in {swbam_write1(sw_w, SwRecord(Len(sw_log), l_seq), compressed)} :
            /\ sw_w' = res.w
            /\ sw_log' = Append(sw_log, [b |-> SwRecord(Len(sw_log), l_seq),
                                         compressed |-> compressed,
                                         ret |-> res.ret])
    /\ UNCHANGED <<sw_r, sw_read, sw_pc, notSw>>

\* swbam_close_writer (todo_bam.cpp:544-556), then swbam_open_reader on the
\* file (todo_bam.cpp:558-582)
SwCloseAndOpen ==
    /\ sw_pc = "writing"
    /\ \E compressed \in BOOLEAN :
        \E f \in {swbam_writer_flush_block(sw_w, compressed)} :
            /\ sw_w' = f.w
            /\ sw_r' = [blocknum |-> Len(f.w.fp), cur_recs |-> <<>>,
                        rec_idx |-> 0, cur_block |-> 0]
    /\ sw_pc' = "reading"
    /\ UNCHANGED <<sw_log, sw_read, notSw>>

\* a call of swbam_read1
SwRead1 ==
    /\ sw_pc = "reading"
    /\ \E res \in {swbam_read1(sw_r, sw_w.fp)} :
        /\ sw_r' = res.r
        /\ sw_read' = IF res.ret = 1 THEN Append(sw_read, res.b) ELSE sw_read
        /\ sw_pc' = IF res.ret = 1 THEN "reading" ELSE "eof"
    /\ UNCHANGED <<sw_w, sw_log, notSw>>

\* swbam_open_writer (todo_bam.cpp:453-485)
SwbamInit ==
    /\ sw_w = [recs_buf |-> <<>>, ublock |-> <<>>, ublock_size |-> 0, fp |-> <<>>]
    /\ sw_log = <<>> /\ sw_r = <<>> /\ sw_read = <<>> /\ sw_pc = "writing"
    /\ MdOff /\ ArOff /\ SfOff /\ JobOff /\ PbOff /\ ScOff /\ PsOff /\ StOff /\ NmOff /\ RlOff /\ WrOff /\ RfOff

SwbamNext == SwWrite1 \/ SwCloseAndOpen \/ SwRead1

SpecSwbam == SwbamInit /\ [][SwbamNext]_vars

\* the record fits into an empty block
FitsBlock(b) == Need(b) <= SWBAM_BLOCK_SIZE

\* the records of the calls that returned 0, in the order of the calls
Written == [k \in 1..Len(SelectSeq(sw_log, LAMBDA e : e.ret = 0)) |->
               SelectSeq(sw_log, LAMBDA e : e.ret = 0)[k].b]

\* the k-th call was refused for the size of its record: the record is
\* larger than a block and the compression of the call, if any, succeeded
RefusedForSize(k) ==
    ~FitsBlock(sw_log[k].b) /\ sw_log[k].compressed /\ sw_log[k].ret = -1

\* C30: when swbam_write1 fails because the record does not fit into an
\* empty block, the writer is left as before the call (the refused record is
\* not among the pending records), so a later swbam_write1 of a record that
\* fits succeeds, and every successfully written record is read back by
\* swbam_read1 exactly once and in write order.
C30_WriterUsableAfterOversizedRecord ==
    /\ \A k \in 1..Len(sw_log) : RefusedForSize(k) =>
          \A j \in (k + 1)..Len(sw_log) :
              (FitsBlock(sw_log[j].b) /\ sw_log[j].compressed) => sw_log[j].ret = 0
    /\ (sw_pc = "writing" /\ sw_log # <<>> /\ RefusedForSize(Len(sw_log))) =>
          \A i \in 1..Len(sw_w.recs_buf) : sw_w.recs_buf[i] \in Range(Written)
    /\ (sw_pc = "eof" /\ sw_w.ublock_size = 0) => sw_read = Written

\* what does hold: every record swbam_write1 accepted is read back exactly
\* once and in write order, and nothing else is, unless the compression at
\* the close failed
AcceptedRecordsAreReadBack ==
    (sw_pc = "eof" /\ sw_w.ublock_size = 0) => sw_read = Written

\* what does hold: a record refused for its size stays at the head of
\* recs_buf, and every later call returns -1
OversizedRecordBlocksWriter ==
    \A k \in 1..Len(sw_log) :
        RefusedForSize(k) =>
            /\ \A j \in (k + 1)..Len(sw_log) : sw_log[j].ret = -1
            /\ sw_pc = "writing" => (sw_w.recs_buf # <<>> /\ ~FitsBlock(sw_w.recs_buf[1]))

\* what does hold: without a record larger than a block every call whose
\* compression succeeds returns 0
FittingRecordsAreAccepted ==
    (\A k \in 1..Len(sw_log) : FitsBlock(sw_log[k].b)) =>
        \A k \in 1..Len(sw_log) : sw_log[k].compressed => sw_log[k].ret = 0
====
